---- MODULE Spec2Model ----
(***************************************************************************)
(* Crunchyroll rating helper (content.js): the card annotator, the         *)
(* container sort engine and the reactive controller (bootstrap retries,   *)
(* safety-net interval, load timer, debounced MutationObserver), over a    *)
(* small document tree whose nodes carry the class names of the source.    *)
(* Text is a sequence of one-character strings; numbers are exact          *)
(* decimals [m, e] standing for m / 10^e, with NaN as a separate value.    *)
(***************************************************************************)
EXTENDS Integers, Sequences, FiniteSets, TLC

(***************************************************************************)
(* Bounds of the model (not program constants).                            *)
(***************************************************************************)
MaxPageChanges == 2
MaxTextLen == 4

(***************************************************************************)
(* Program constants.                                                      *)
(***************************************************************************)
MAX_RETRIES == 5
MAX_PERIODIC_CHECKS == 4

\* the element of a one-element set: { F(v) : v \in {e} } computes e once
\* and gives it the name v in F
Only(S) == CHOOSE v \in S : TRUE

(***************************************************************************)
(* Text: String.prototype.trim, String.prototype.includes.                 *)
(***************************************************************************)
Digits == {"0", "1", "2", "3", "4", "5", "6", "7", "8", "9"}

DigitVal(c) ==
    CASE c = "0" -> 0 [] c = "1" -> 1 [] c = "2" -> 2 [] c = "3" -> 3
      [] c = "4" -> 4 [] c = "5" -> 5 [] c = "6" -> 6 [] c = "7" -> 7
      [] c = "8" -> 8 [] c = "9" -> 9

DigitChar(d) ==
    CASE d = 0 -> "0" [] d = 1 -> "1" [] d = 2 -> "2" [] d = 3 -> "3"
      [] d = 4 -> "4" [] d = 5 -> "5" [] d = 6 -> "6" [] d = 7 -> "7"
      [] d = 8 -> "8" [] d = 9 -> "9"

RECURSIVE TrimLeft(_)
TrimLeft(s) ==
    IF s # <<>> /\ Head(s) = " " THEN TrimLeft(Tail(s)) ELSE s

RECURSIVE TrimRight(_)
TrimRight(s) ==
    IF s # <<>> /\ s[Len(s)] = " " THEN TrimRight(SubSeq(s, 1, Len(s) - 1)) ELSE s

Trim(s) == TrimRight(TrimLeft(s))

\* s.includes(t)
Includes(s, t) ==
    \E i \in 1..(Len(s) - Len(t) + 1) : SubSeq(s, i, i + Len(t) - 1) = t

(***************************************************************************)
(* Numbers: exact decimals m / 10^e, normalised (no trailing zero in the   *)
(* fraction), and NaN.                                                     *)
(***************************************************************************)
NaN == [m |-> 0, e |-> -1]

IsNaN(x) == x.e = -1

RECURSIVE Pow10(_)
Pow10(k) == IF k = 0 THEN 1 ELSE 10 * Pow10(k - 1)

RECURSIVE Norm(_)
Norm(x) ==
    IF x.e > 0 /\ x.m % 10 = 0 THEN Norm([m |-> x.m \div 10, e |-> x.e - 1]) ELSE x

Zero == [m |-> 0, e |-> 0]

\* the sign of a - b for two numbers that are not NaN
CmpNum(a, b) ==
    LET k  == IF a.e > b.e THEN a.e ELSE b.e
        am == a.m * Pow10(k - a.e)
        bm == b.m * Pow10(k - b.e)
    IN  IF am < bm THEN -1 ELSE IF am > bm THEN 1 ELSE 0

\* a > 0, a === 0 as JavaScript evaluates them (both false for NaN)
GtZero(a) == ~IsNaN(a) /\ a.m > 0
EqZero(a) == ~IsNaN(a) /\ a.m = 0

\* a !== b : NaN differs from everything, itself included
NeqNum(a, b) == IsNaN(a) \/ IsNaN(b) \/ CmpNum(a, b) # 0

\* a * 1000
Times1000(a) ==
    IF IsNaN(a) THEN NaN
    ELSE IF a.e >= 3 THEN Norm([m |-> a.m, e |-> a.e - 3])
    ELSE [m |-> a.m * Pow10(3 - a.e), e |-> 0]

RECURSIVE DigitsValue(_)
DigitsValue(ds) ==
    IF ds = <<>> THEN 0 ELSE DigitsValue(SubSeq(ds, 1, Len(ds) - 1)) * 10 + DigitVal(ds[Len(ds)])

RECURSIVE DigitPrefix(_)
DigitPrefix(s) ==
    IF s # <<>> /\ Head(s) \in Digits THEN <<Head(s)>> \o DigitPrefix(Tail(s)) ELSE <<>>

\* parseFloat(s) for decimal literals: leading white space, a sign, digits,
\* a point and digits; the longest such prefix is the value, none is NaN.
MakeNumber(ip, fp) ==
    IF ip = <<>> /\ fp = <<>> THEN NaN
    ELSE Norm([m |-> DigitsValue(ip \o fp), e |-> Len(fp)])

FractionDigits(r) ==
    IF r # <<>> /\ Head(r) = "." THEN DigitPrefix(Tail(r)) ELSE <<>>

ParseFraction(ip, u) ==
    Only({MakeNumber(ip, fp) : fp \in {FractionDigits(SubSeq(u, Len(ip) + 1, Len(u)))}})

ParseUnsigned(u) == Only({ParseFraction(ip, u) : ip \in {DigitPrefix(u)}})

ApplySign(neg, x) == IF neg /\ ~IsNaN(x) THEN [m |-> 0 - x.m, e |-> x.e] ELSE x

ParseSigned(t) ==
    Only({ApplySign(t # <<>> /\ Head(t) = "-", x) :
            x \in {ParseUnsigned(IF t # <<>> /\ Head(t) \in {"-", "+"}
                                 THEN Tail(t) ELSE t)}})

ParseFloat(s) == Only({ParseSigned(t) : t \in {TrimLeft(s)}})

RECURSIVE NatToText(_)
NatToText(n) ==
    IF n < 10 THEN <<DigitChar(n)>> ELSE NatToText(n \div 10) \o <<DigitChar(n % 10)>>

RECURSIVE FracToText(_, _)
FracToText(f, e) ==
    IF e = 0 THEN <<>> ELSE FracToText(f \div 10, e - 1) \o <<DigitChar(f % 10)>>

\* `${x}` for a positive number
NumToText(x) ==
    IF x.e = 0 THEN NatToText(x.m)
    ELSE NatToText(x.m \div Pow10(x.e)) \o <<".">> \o FracToText(x.m % Pow10(x.e), x.e)

(***************************************************************************)
(* The document tree.  Node 0 is document.body; the other nodes are the    *)
(* elements of the page.  A layout fixes the class names of the elements   *)
(* and where they start; kids gives every node's child list in order.      *)
(***************************************************************************)
Body == 0
Nodes == 1..16
None == -1

VARIABLES
    layout,              \* the page the script runs on (index into Layouts)
    kids,                \* [{Body} \cup Nodes -> Seq(Nodes)] : child lists
    text,                \* [Nodes -> text] : textContent of the leaf elements
    processedCards,      \* WeakSet processedCards
    processedContainers, \* WeakSet processedContainers
    retryCount,          \* let retryCount
    hasFoundCards        \* let hasFoundCards

\* class names of an element, by the element kinds the layouts use
TagClasses(tag) ==
    CASE tag = "track"  -> {"carousel-scroller__track--43f0L"}
      [] tag = "coll"   -> {"erc-browse-cards-collection"}
      [] tag = "ccard"  -> {"carousel-scroller__card--4Lrk-"}
      [] tag = "bcard"  -> {"browse-card"}
      [] tag = "icard"  -> {"browse-card--esJdT"}
      [] tag = "bicard" -> {"browse-card", "browse-card--esJdT"}
      [] tag = "title"  -> {"browse-card__title-link--SLlRM"}
      [] tag = "rating" -> {"star-rating-short-static__rating--bdAfR"}
      [] tag = "votes"  -> {"star-rating-short-static__votes-count--h9Sun"}
      [] tag = "fbtrack" -> {"carousel-track"}
      [] tag = "fbcoll"  -> {"browse-collection"}
      [] tag = "fbscroll" -> {"scroller"}
      [] tag = "rtrack"  -> {"carousel-scroller__track--Xy12z"}
      [] tag = "scoll"   -> {"erc-browse-cards-collection", "scroller"}
      [] OTHER          -> {}

\* which of the substrings that the selectors and sortContainer test
\* ( [class*="..."], className.includes ) a class name contains
ClassSubstrings(c) ==
    CASE c = "browse-card--esJdT" -> {"browse-card", "card", "browse"}
      [] c = "browse-card" -> {"browse-card", "card", "browse"}
      [] c = "browse-card__title-link--SLlRM" -> {"browse-card", "card", "browse"}
      [] c = "carousel-scroller__card--4Lrk-" -> {"card", "carousel", "scroller"}
      [] c = "star-rating-short-static__rating--bdAfR" -> {"rating"}
      [] c = "star-rating-short-static__votes-count--h9Sun" -> {"rating"}
      [] c = "carousel-scroller__track--43f0L" -> {"carousel", "scroller", "track"}
      [] c = "erc-browse-cards-collection" -> {"browse-card", "card", "browse", "collection"}
      [] c = "carousel-track" -> {"carousel", "track"}
      [] c = "browse-collection" -> {"browse", "collection"}
      [] c = "scroller" -> {"scroller"}
      [] c = "carousel-scroller__track--Xy12z" -> {"carousel", "scroller", "track"}

Substrings(classes) == UNION {ClassSubstrings(c) : c \in classes}

\* SELECTORS
SELECTORS ==
    [innerCard |-> "innerCard", carouselCard |-> "carouselCard",
     browseCard |-> "browseCard",
     cardFallbacks |-> <<"innerCard", "browseCard", "cardFb3", "cardFb4">>,
     title |-> "title", rating |-> "rating", votes |-> "votes",
     carouselContainer |-> "carouselContainer",
     browseContainer |-> "browseContainer",
     containerFallbacks |->
        <<"carouselContainer", "browseContainer", "contFb3", "contFb4", "contFb5">>]

\* the class a one-class selector names
SelectorClass(sel) ==
    CASE sel = "innerCard"    -> "browse-card--esJdT"
      [] sel = "carouselCard" -> "carousel-scroller__card--4Lrk-"
      [] sel = "browseCard"   -> "browse-card"
      [] sel = "title"        -> "browse-card__title-link--SLlRM"
      [] sel = "rating"       -> "star-rating-short-static__rating--bdAfR"
      [] sel = "votes"        -> "star-rating-short-static__votes-count--h9Sun"
      [] sel = "carouselContainer" -> "carousel-scroller__track--43f0L"
      [] sel = "browseContainer"   -> "erc-browse-cards-collection"
      [] OTHER -> "none"

RECURSIVE DescList(_, _)
DescList(k, s) ==
    IF s = <<>> THEN <<>>
    ELSE <<Head(s)>> \o DescList(k, k[Head(s)]) \o DescList(k, Tail(s))

\* the descendants of n in document order
Desc(k, n) == DescList(k, k[n])

Range(s) == {s[i] : i \in DOMAIN s}

\* node.parentNode
Parent(k, n) ==
    IF \E p \in DOMAIN k : n \in Range(k[p])
    THEN CHOOSE p \in DOMAIN k : n \in Range(k[p])
    ELSE None

InDocument(k, n) == n \in Range(Desc(k, Body))

\* a selector against an element with the given class names, the substrings
\* subs of its class attribute and the substrings below of its descendants'
MatchesClasses(sel, classes, subs, below) ==
    CASE sel = "cardFb3" -> "browse-card" \in subs
      [] sel = "cardFb4" -> "card" \in subs /\ "rating" \in below
      [] sel = "contFb3" -> "carousel" \in subs /\ "track" \in subs
      [] sel = "contFb4" -> "browse" \in subs /\ "collection" \in subs
      [] sel = "contFb5" -> "scroller" \in subs /\ "card" \in below
      [] OTHER -> SelectorClass(sel) \in classes

\* element.matches(selector), on the class names cl[n] of the layout
MatchesSel(cl, k, sel, n) ==
    MatchesClasses(sel, cl[n], Substrings(cl[n]),
                   UNION {Substrings(cl[d]) : d \in Range(Desc(k, n))})

\* root.querySelectorAll(selector) and root.querySelector(selector)
QuerySelectorAll(cl, k, root, sel) ==
    SelectSeq(Desc(k, root), LAMBDA n : MatchesSel(cl, k, sel, n))

First(s) == IF s = <<>> THEN None ELSE s[1]

QuerySelector(cl, k, root, sel) ==
    Only({First(found) : found \in {QuerySelectorAll(cl, k, root, sel)}})

(***************************************************************************)
(* extractRatingData                                                       *)
(***************************************************************************)
RECURSIVE NumPrefix(_)
\* the longest prefix matching [\d.]*
NumPrefix(s) ==
    IF s # <<>> /\ Head(s) \in Digits \cup {"."}
    THEN <<Head(s)>> \o NumPrefix(Tail(s)) ELSE <<>>

\* the match of /\(([\d.]+)([kK])?\)/ that starts at position i with the run
\* of digits and points run, if any
VotesMatchRun(s, i, run) ==
    LET j    == i + Len(run) + 1
        isK  == j <= Len(s) /\ s[j] \in {"k", "K"}
        endj == IF isK THEN j + 1 ELSE j
    IN  [ok  |-> s[i] = "(" /\ run # <<>> /\ endj <= Len(s) /\ s[endj] = ")",
         num |-> run, k |-> isK]

VotesMatchAt(s, i) ==
    Only({VotesMatchRun(s, i, run) : run \in {NumPrefix(SubSeq(s, i + 1, Len(s)))}})

LeftmostMatch(s, hits) ==
    IF hits = {} THEN [ok |-> FALSE, num |-> <<>>, k |-> FALSE]
    ELSE VotesMatchAt(s, CHOOSE i \in hits : \A h \in hits : i <= h)

\* votesText.match(/\(([\d.]+)([kK])?\)/) : the leftmost match
VotesMatch(s) ==
    Only({LeftmostMatch(s, hits) : hits \in {{i \in 1..Len(s) : VotesMatchAt(s, i).ok}}})

\* a variant that forgets the k suffix
VotesOfMatchNoKilo(match) ==
    IF ~match.ok THEN Zero ELSE ParseFloat(match.num)

\* lines 153-158
VotesOfMatch(match) ==
    IF ~match.ok THEN Zero
    ELSE IF match.k THEN Times1000(ParseFloat(match.num))
    ELSE ParseFloat(match.num)

ParseVotes(votesText) ==
    Only({VotesOfMatch(match) : match \in {VotesMatch(votesText)}})

\* a variant that parses the text of an absent element, which is undefined
RatingDataOfUnguarded(txt, ratingElement, votesElement) ==
    [rating |-> IF ratingElement # None THEN ParseFloat(Trim(txt[ratingElement]))
                ELSE NaN,
     votes  |-> ParseVotes(IF votesElement # None THEN Trim(txt[votesElement])
                           ELSE <<>>)]

\* lines 147-160, with the two elements already looked up
RatingDataOf(txt, ratingElement, votesElement) ==
    [rating |-> IF ratingElement # None THEN ParseFloat(Trim(txt[ratingElement]))
                ELSE Zero,
     votes  |-> ParseVotes(IF votesElement # None THEN Trim(txt[votesElement])
                           ELSE <<"(", "0", ")">>)]

ExtractRatingData(cl, k, txt, card) ==
    Only({RatingDataOf(txt, ratingElement, votesElement) :
            ratingElement \in {QuerySelector(cl, k, card, SELECTORS.rating)},
            votesElement \in {QuerySelector(cl, k, card, SELECTORS.votes)}})

(***************************************************************************)
(* The work of one task is threaded through a record st:                   *)
(*   k, t      the child lists and the texts                               *)
(*   pc, pk    processedCards, processedContainers                         *)
(*   app, cnt  how often a title was appended to, a container reordered    *)
(*   ann, srt  the calls of addRatingToTitle and sortContainer of the task *)
(*   skip      the containers a sweep passed over as already sorted        *)
(*   added     the nodes reported as added to the observer                 *)
(*   scroll    per container: the scroll resets scheduled                  *)
(*   bad       the inner cards and containers on which a call of the host  *)
(*             throws                                                      *)
(*   det       the call of detectAllContainers of the task                 *)
(*   nop       the containers sortContainer has left unsorted and unmarked *)
(***************************************************************************)

(***************************************************************************)
(* addRatingToTitle                                                        *)
(***************************************************************************)
\* `(${rating})`
RatingSuffix(rating) == <<"(">> \o NumToText(rating) \o <<")">>

\* a variant that forgets the marker
AlreadyProcessedNever(pc, card) == FALSE

\* processedCards.has(card)
AlreadyProcessed(pc, card) == card \in pc

\* a variant that takes rating >= 0 for valid
ValidRatingOrZero(rating) == ~IsNaN(rating) /\ rating.m >= 0

\* rating > 0
ValidRating(rating) == GtZero(rating)

\* a variant that marks every card it has looked at to the end
AnnotateMarkingSeen(hfc, st, titleElement, card, rating) ==
    IF AlreadyProcessed(st.pc, card) THEN [st |-> st, ret |-> FALSE]
    ELSE IF titleElement = None THEN [st |-> st, ret |-> FALSE]
    ELSE IF EqZero(rating) /\ ~hfc THEN [st |-> st, ret |-> FALSE]
    ELSE IF ValidRating(rating) /\ ~Includes(st.t[titleElement], RatingSuffix(rating))
    THEN [st  |-> [st EXCEPT !.t[titleElement] =
                                 Trim(@) \o <<" ">> \o RatingSuffix(rating),
                             !.pc = @ \cup {card},
                             !.app[card] = @ + 1],
          ret |-> TRUE]
    ELSE [st |-> [st EXCEPT !.pc = @ \cup {card}], ret |-> FALSE]

\* lines 168-195, with the title element and the rating already looked up
Annotate(hfc, st, titleElement, card, rating) ==
    IF AlreadyProcessed(st.pc, card) THEN [st |-> st, ret |-> FALSE]
    ELSE IF titleElement = None THEN [st |-> st, ret |-> FALSE]
    ELSE IF EqZero(rating) /\ ~hfc THEN [st |-> st, ret |-> FALSE]
    ELSE IF ValidRating(rating) /\ ~Includes(st.t[titleElement], RatingSuffix(rating))
    THEN [st  |-> [st EXCEPT !.t[titleElement] =
                                 Trim(@) \o <<" ">> \o RatingSuffix(rating),
                             !.pc = @ \cup {card},
                             !.app[card] = @ + 1],
          ret |-> TRUE]
    ELSE [st |-> st, ret |-> FALSE]

\* the call as the task's log keeps it
AnnotateCall(hfc, st, titleElement, card, rating, r) ==
    [st  |-> [r.st EXCEPT !.ann = Append(@,
                 [card |-> card, marked |-> card \in st.pc,
                  hasTitle |-> titleElement # None, zero |-> EqZero(rating),
                  steady |-> hfc, ret |-> r.ret,
                  changed |-> r.st.t # st.t \/ r.st.pc # st.pc,
                  threw |-> FALSE])],
     ret |-> r.ret]

AnnotateWith(hfc, st, titleElement, card, rating) ==
    Only({AnnotateCall(hfc, st, titleElement, card, rating, r) :
            r \in {Annotate(hfc, st, titleElement, card, rating)}})

\* card.querySelector throws at line 172: nothing is written
AnnotateThrows(hfc, st, card) ==
    [st  |-> [st EXCEPT !.ann = Append(@,
                 [card |-> card, marked |-> FALSE, hasTitle |-> FALSE,
                  zero |-> FALSE, steady |-> hfc, ret |-> FALSE,
                  changed |-> FALSE, threw |-> TRUE])],
     ret |-> FALSE, threw |-> TRUE]

AddRatingToTitle(cl, hfc, st, card) ==
    IF card \in st.bad /\ ~AlreadyProcessed(st.pc, card)
    THEN AnnotateThrows(hfc, st, card)
    ELSE [threw |-> FALSE] @@
         Only({AnnotateWith(hfc, st, titleElement, card, rating) :
            titleElement \in {QuerySelector(cl, st.k, card, SELECTORS.title)},
            rating \in {ExtractRatingData(cl, st.k, st.t, card).rating}})

(***************************************************************************)
(* sortContainer                                                           *)
(***************************************************************************)
\* a variant that puts the lowest rating first
SortCompareAscending(a, b) ==
    IF NeqNum(a.rating, b.rating) THEN CmpNum(a.rating, b.rating)
    ELSE IF IsNaN(a.votes) \/ IsNaN(b.votes) THEN 0
    ELSE CmpNum(b.votes, a.votes)

\* the comparator of lines 302-307; a NaN result counts as 0 in sort
SortCompare(a, b) ==
    IF NeqNum(a.rating, b.rating) THEN CmpNum(b.rating, a.rating)
    ELSE IF IsNaN(a.votes) \/ IsNaN(b.votes) THEN 0
    ELSE CmpNum(b.votes, a.votes)

RECURSIVE SortInsert(_, _)
\* x goes in front of the first element it is strictly smaller than,
\* scanning from the back
SortInsert(s, x) ==
    IF s = <<>> THEN <<x>>
    ELSE IF SortCompare(s[Len(s)], x) > 0
         THEN SortInsert(SubSeq(s, 1, Len(s) - 1), x) \o <<s[Len(s)]>>
         ELSE s \o <<x>>

RECURSIVE ArraySort(_)
\* Array.prototype.sort: stable
ArraySort(s) ==
    IF s = <<>> THEN <<>>
    ELSE Only({SortInsert(front, s[Len(s)]) :
                 front \in {ArraySort(SubSeq(s, 1, Len(s) - 1))}})

\* fragment.appendChild(x): x leaves its parent, wherever it is, and becomes
\* the last child of the fragment
FragmentAppend(w, x) ==
    [k    |-> [n \in DOMAIN w.k |-> SelectSeq(w.k[n], LAMBDA y : y # x)],
     frag |-> SelectSeq(w.frag, LAMBDA y : y # x) \o <<x>>]

RECURSIVE AppendRated(_, _)
\* lines 316-318
AppendRated(w, sorted) ==
    IF sorted = <<>> THEN w
    ELSE Only({AppendRated(w2, Tail(sorted)) :
                 w2 \in {FragmentAppend(w, Head(sorted).element)}})

\* a variant that leaves every unrated card where it is
MovesUnratedNever(k, card, ratedElements, container) == FALSE

\* !hasRating && card.parentNode === container
MovesUnrated(k, card, ratedElements, container) ==
    card \notin ratedElements /\ Parent(k, card) = container

RECURSIVE AppendUnrated(_, _, _, _)
\* lines 321-326
AppendUnrated(w, cards, ratedElements, container) ==
    IF cards = <<>> THEN w
    ELSE Only({AppendUnrated(w2, Tail(cards), ratedElements, container) :
                 w2 \in {IF MovesUnrated(w.k, Head(cards), ratedElements, container)
                         THEN FragmentAppend(w, Head(cards)) ELSE w}})

NoSelector == "none"

RECURSIVE FindSelector(_, _, _, _, _)
\* SELECTORS.cardFallbacks.find(...); the :has() selector throws, and is
\* passed over, where the engine has no :has()
FindSelector(cl, k, container, hasPseudo, sels) ==
    IF sels = <<>> THEN NoSelector
    ELSE IF (Head(sels) # "cardFb4" \/ hasPseudo)
            /\ QuerySelectorAll(cl, k, container, Head(sels)) # <<>>
         THEN Head(sels)
         ELSE FindSelector(cl, k, container, hasPseudo, Tail(sels))

\* lines 233-255
CardSelector(cl, k, container, containerType, hasPseudo) ==
    CASE containerType = "carousel" -> SELECTORS.carouselCard
      [] containerType = "browse"   -> SELECTORS.browseCard
      [] OTHER -> FindSelector(cl, k, container, hasPseudo, SELECTORS.cardFallbacks)

\* a variant that takes the card for its own inner card
InnerAlwaysCard(found, card) == card

\* card.querySelector(SELECTORS.innerCard) || card
InnerOr(found, card) == IF found # None THEN found ELSE card

\* lines 275-287 for one card, given its inner card; extractRatingData
\* throws on a faulty inner card and the catch of line 288 returns null,
\* which the filter of line 292 drops
MapItem(cl, hfc, acc, card, innerCard) ==
    IF innerCard \in acc.st.bad THEN acc
    ELSE
    Only({[st    |-> AddRatingToTitle(cl, hfc, st, innerCard).st,
           items |-> Append(acc.items,
                            [element |-> card, innerCard |-> innerCard]
                              @@ ExtractRatingData(cl, st.k, st.t, innerCard))] :
            st \in {acc.st}})

RECURSIVE MapCards(_, _, _, _)
\* cards.map(...) of lines 266-292, before the filter
MapCards(cl, hfc, acc, cards) ==
    IF cards = <<>> THEN acc
    ELSE Only({MapCards(cl, hfc, acc2, Tail(cards)) :
                 acc2 \in {MapItem(cl, hfc, acc, Head(cards), innerCard) :
                              innerCard \in {InnerOr(found, Head(cards)) :
                                  found \in {QuerySelector(cl, acc.st.k, Head(cards),
                                                           SELECTORS.innerCard)}}}})

\* a return of sortContainer, logged: st0 is the state at the call
SortReturn(st0, st, container, containerType, cards, all, rated, ret) ==
    [st EXCEPT !.srt = Append(@,
        [container |-> container, type |-> containerType,
         marked |-> container \in st0.pk, pre |-> st0.k, cards |-> cards,
         all |-> all, rated |-> rated, ret |-> ret, post |-> st.k,
         markedAfter |-> container \in st.pk, threw |-> FALSE]),
               !.nop = IF ~ret /\ container \notin st0.pk
                       THEN @ \cup {container} ELSE @]

\* container.className.includes('carousel') || ...includes('scroller')
ScrollerClass(cl, container) ==
    "carousel" \in Substrings(cl[container]) \/ "scroller" \in Substrings(cl[container])

\* a variant that resets the scroll offset of carousels only
ScrollResetDueCarouselOnly(cl, container, containerType) ==
    containerType = "carousel"

\* line 331
ScrollResetDue(cl, container, containerType) ==
    containerType = "carousel" \/ ScrollerClass(cl, container)

\* a variant that sets no marker
MarkContainerNot(pk, container) == pk

\* processedContainers.add(container)
MarkContainer(pk, container) == pk \cup {container}

\* a variant that replaces the children of the container by the fragment
AppendFragmentReplacing(k, container, frag) == [k EXCEPT ![container] = frag]

\* container.appendChild(fragment): the children of the fragment go to the
\* end of the container
AppendFragment(k, container, frag) == [k EXCEPT ![container] = @ \o frag]

\* lines 328-341
Reordered(cl, st, container, containerType, cards, mapped, sorted, w) ==
    SortReturn(st,
        [mapped.st EXCEPT
            !.k = AppendFragment(w.k, container, w.frag),
            !.added = @ \cup Range(w.frag),
            !.scroll[container] =
                @ + (IF ScrollResetDue(cl, container, containerType) THEN 1 ELSE 0),
            !.pk = MarkContainer(@, container),
            !.cnt[container] = @ + 1],
        container, containerType, cards, mapped.items, sorted, TRUE)

\* lines 312-326
Reorder(cl, st, container, containerType, cards, mapped, sorted) ==
    Only({Reordered(cl, st, container, containerType, cards, mapped, sorted, w) :
            w \in {AppendUnrated(w1, cards, {sorted[i].element : i \in DOMAIN sorted},
                                 container) :
                     w1 \in {AppendRated([k |-> mapped.st.k, frag |-> <<>>], sorted)}}})

\* a variant that marks a container it leaves unsorted
SortRatedMarking(cl, st, container, containerType, cards, mapped, cardsWithRatings) ==
    IF Len(cardsWithRatings) < 2
    THEN SortReturn(st, [mapped.st EXCEPT !.pk = MarkContainer(@, container)],
                    container, containerType, cards, mapped.items,
                    cardsWithRatings, FALSE)
    ELSE Only({Reorder(cl, st, container, containerType, cards, mapped, sorted) :
                 sorted \in {ArraySort(cardsWithRatings)}})

\* lines 296-307
SortRated(cl, st, container, containerType, cards, mapped, cardsWithRatings) ==
    IF Len(cardsWithRatings) < 2
    THEN SortReturn(st, mapped.st, container, containerType, cards, mapped.items,
                    cardsWithRatings, FALSE)
    ELSE Only({Reorder(cl, st, container, containerType, cards, mapped, sorted) :
                 sorted \in {ArraySort(cardsWithRatings)}})

\* line 292: .filter(item => item && item.rating > 0)
SortMapped(cl, st, container, containerType, cards, mapped) ==
    Only({SortRated(cl, st, container, containerType, cards, mapped, cardsWithRatings) :
            cardsWithRatings \in
                {SelectSeq(mapped.items, LAMBDA item : GtZero(item.rating))}})

\* lines 260-292
SortCards(cl, hfc, st, container, containerType, cards) ==
    IF Len(cards) < 2
    THEN SortReturn(st, st, container, containerType, cards, <<>>, <<>>, FALSE)
    ELSE Only({SortMapped(cl, st, container, containerType, cards, mapped) :
                 mapped \in {MapCards(cl, hfc, [st |-> st, items |-> <<>>], cards)}})

\* lines 251-257
SortSelected(cl, hfc, st, container, containerType, cardSelector) ==
    IF cardSelector = NoSelector
    THEN SortReturn(st, st, container, containerType, <<>>, <<>>, <<>>, FALSE)
    ELSE Only({SortCards(cl, hfc, st, container, containerType, cards) :
                 cards \in {QuerySelectorAll(cl, st.k, container, cardSelector)}})

\* a call of the host on the container throws (container.className at line
\* 229): sortContainer is left by the exception and nothing is written
SortThrows(st, container, containerType) ==
    [st EXCEPT !.srt = Append(@,
        [container |-> container, type |-> containerType,
         marked |-> FALSE, pre |-> st.k, cards |-> <<>>,
         all |-> <<>>, rated |-> <<>>, ret |-> FALSE, post |-> st.k,
         markedAfter |-> FALSE, threw |-> TRUE])]

SortContainer(cl, hfc, hasPseudo, st, container, containerType) ==
    IF container \in st.pk
    THEN SortReturn(st, st, container, containerType, <<>>, <<>>, <<>>, FALSE)
    ELSE IF container \in st.bad
    THEN SortThrows(st, container, containerType)
    ELSE Only({SortSelected(cl, hfc, st, container, containerType, cardSelector) :
                 cardSelector \in
                     {CardSelector(cl, st.k, container, containerType, hasPseudo)}})

(***************************************************************************)
(* The three handlers of the earlier iteration of the script               *)
(* (src/unnamed/part_000): handleCarouselContainer, handleBrowseContainer  *)
(* and handleGenericContainer.  extractRatingData and addRatingToTitle are *)
(* the same there, and so are the filter, the sort and the rebuild, which  *)
(* the handlers run outside any try.                                       *)
(***************************************************************************)
\* card.querySelector(SELECTORS.innerCard) of the carousel and the browse
\* handler: null when the card has no inner card below it
ResolveInner(found, card) == found

\* the map callback of a handler for one card, given the inner card it has
\* resolved: a null inner card gives a null item, and an exception of
\* extractRatingData, which no handler catches, ends the handler
HandlerMapItem(cl, hfc, acc, card, innerCard) ==
    IF acc.threw \/ innerCard = None THEN acc
    ELSE IF innerCard \in acc.st.bad THEN [acc EXCEPT !.threw = TRUE]
    ELSE [threw |-> FALSE] @@ MapItem(cl, hfc, [st |-> acc.st, items |-> acc.items],
                                      card, innerCard)

RECURSIVE HandlerMapCards(_, _, _, _, _)
\* cards.map(...) of a handler; orSelf is TRUE for the generic handler,
\* which takes the card for its own inner card
HandlerMapCards(cl, hfc, acc, cards, orSelf) ==
    IF cards = <<>> THEN acc
    ELSE Only({HandlerMapCards(cl, hfc, acc2, Tail(cards), orSelf) :
                 acc2 \in {HandlerMapItem(cl, hfc, acc, Head(cards), innerCard) :
                              innerCard \in {IF orSelf THEN InnerOr(found, Head(cards))
                                             ELSE ResolveInner(found, Head(cards)) :
                                  found \in {QuerySelector(cl, acc.st.k, Head(cards),
                                                           SELECTORS.innerCard)}}}})

\* a handler from the test cards.length < 2 on; the browse handler sets no
\* scroll reset
HandlerCards(cl, hfc, st, container, containerType, cards, orSelf) ==
    IF Len(cards) < 2
    THEN SortReturn(st, st, container, containerType, cards, <<>>, <<>>, FALSE)
    ELSE \* an exception leaves the handler: what it has written so far stays
         Only({IF mapped.threw
               THEN SortThrows(mapped.st, container, containerType)
               ELSE [SortMapped(cl, st, container, containerType, cards,
                                [st |-> mapped.st, items |-> mapped.items])
                        EXCEPT !.scroll[container] =
                            IF containerType = "browse" THEN st.scroll[container] ELSE @] :
                 mapped \in {HandlerMapCards(cl, hfc,
                                 [st |-> st, items |-> <<>>, threw |-> FALSE],
                                 cards, orSelf)}})

\* a handler from its first line to the lookup of its cards
HandlerSelected(cl, hfc, st, container, containerType, cardSelector, orSelf) ==
    IF container \in st.pk
    THEN SortReturn(st, st, container, containerType, <<>>, <<>>, <<>>, FALSE)
    ELSE IF container \in st.bad
    THEN SortThrows(st, container, containerType)
    ELSE IF cardSelector = NoSelector
    THEN SortReturn(st, st, container, containerType, <<>>, <<>>, <<>>, FALSE)
    ELSE Only({HandlerCards(cl, hfc, st, container, containerType, cards, orSelf) :
                 cards \in {QuerySelectorAll(cl, st.k, container, cardSelector)}})

handleCarouselContainer(cl, hfc, st, container) ==
    HandlerSelected(cl, hfc, st, container, "carousel", SELECTORS.carouselCard, FALSE)

handleBrowseContainer(cl, hfc, st, container) ==
    HandlerSelected(cl, hfc, st, container, "browse", SELECTORS.browseCard, FALSE)

\* the loop over SELECTORS.cardFallbacks stops at the first selector that
\* finds a card, as find() does in sortContainer
handleGenericContainer(cl, hfc, hasPseudo, st, container) ==
    Only({HandlerSelected(cl, hfc, st, container, "generic", cardSelector, TRUE) :
            cardSelector \in {FindSelector(cl, st.k, container, hasPseudo,
                                           SELECTORS.cardFallbacks)}})

\* the handler the earlier sortAllContainers calls for a type
HandleContainer(cl, hfc, hasPseudo, st, container, containerType) ==
    CASE containerType = "carousel" -> handleCarouselContainer(cl, hfc, st, container)
      [] containerType = "browse"   -> handleBrowseContainer(cl, hfc, st, container)
      [] OTHER -> handleGenericContainer(cl, hfc, hasPseudo, st, container)

(***************************************************************************)
(* detectAllContainers                                                     *)
(***************************************************************************)
\* a variant that looks for browse cards first
BucketBrowseFirst(detected, container, carouselCards, browseCards, innerCards) ==
    IF browseCards > 0
    THEN [detected EXCEPT !.browse = Append(@, container)]
    ELSE IF carouselCards > 0
    THEN [detected EXCEPT !.carousels = Append(@, container)]
    ELSE IF innerCards > 0
    THEN [detected EXCEPT !.unknown = Append(@, container)]
    ELSE detected

\* a variant that looks for inner cards first
BucketUnknownFirst(detected, container, carouselCards, browseCards, innerCards) ==
    IF innerCards > 0
    THEN [detected EXCEPT !.unknown = Append(@, container)]
    ELSE IF carouselCards > 0
    THEN [detected EXCEPT !.carousels = Append(@, container)]
    ELSE IF browseCards > 0
    THEN [detected EXCEPT !.browse = Append(@, container)]
    ELSE detected

\* lines 118-127 for one container matched by a fallback selector
Bucket(detected, container, carouselCards, browseCards, innerCards) ==
    IF carouselCards > 0
    THEN [detected EXCEPT !.carousels = Append(@, container)]
    ELSE IF browseCards > 0
    THEN [detected EXCEPT !.browse = Append(@, container)]
    ELSE IF innerCards > 0
    THEN [detected EXCEPT !.unknown = Append(@, container)]
    ELSE detected

RECURSIVE BucketContainers(_, _, _, _)
\* lines 113-128
BucketContainers(cl, k, detected, containers) ==
    IF containers = <<>> THEN detected
    ELSE Only({BucketContainers(cl, k, d2, Tail(containers)) :
            d2 \in {Bucket(detected, Head(containers),
                   Len(QuerySelectorAll(cl, k, Head(containers), SELECTORS.carouselCard)),
                   Len(QuerySelectorAll(cl, k, Head(containers), SELECTORS.browseCard)),
                   Len(QuerySelectorAll(cl, k, Head(containers), SELECTORS.innerCard)))}})

\* document.querySelectorAll(selector) throws: the engine rejects :has()
SelectorThrows(hasPseudo, sel) == sel = "contFb5" /\ ~hasPseudo

\* the call of querySelectorAll of line 112, as the log keeps it
Tried(detected, sel, threw) ==
    [detected EXCEPT !.tried = Append(@, sel),
                     !.failed = IF threw THEN @ \cup {sel} ELSE @]

RECURSIVE FallbackDetectAborting(_, _, _, _, _)
\* a variant without the try of line 111: the exception ends the cascade
\* and the caller gets no container
FallbackDetectAborting(cl, k, hasPseudo, detected, sels) ==
    IF sels = <<>> THEN detected
    ELSE IF SelectorThrows(hasPseudo, Head(sels))
    THEN [Tried(detected, Head(sels), TRUE) EXCEPT
             !.carousels = <<>>, !.browse = <<>>, !.unknown = <<>>]
    ELSE Only({FallbackDetectAborting(cl, k, hasPseudo, d2, Tail(sels)) :
            d2 \in {BucketContainers(cl, k, Tried(detected, Head(sels), FALSE),
                                     containers) :
                      containers \in {QuerySelectorAll(cl, k, Body, Head(sels))}}})

RECURSIVE FallbackDetect(_, _, _, _, _)
\* lines 110-132; a selector the engine rejects throws and is passed over
FallbackDetect(cl, k, hasPseudo, detected, sels) ==
    IF sels = <<>> THEN detected
    ELSE Only({FallbackDetect(cl, k, hasPseudo, d2, Tail(sels)) :
            d2 \in {IF SelectorThrows(hasPseudo, Head(sels))
                    THEN Tried(detected, Head(sels), TRUE)
                    ELSE Only({BucketContainers(cl, k,
                                   Tried(detected, Head(sels), FALSE), containers) :
                           containers \in {QuerySelectorAll(cl, k, Body, Head(sels))}})}})

\* a variant that consults the fallback selectors on every page
DetectFromAlways(cl, k, hasPseudo, detected) ==
    FallbackDetect(cl, k, hasPseudo, detected, SELECTORS.containerFallbacks)

\* lines 107-135
DetectFrom(cl, k, hasPseudo, detected) ==
    IF detected.carousels = <<>> /\ detected.browse = <<>>
    THEN FallbackDetect(cl, k, hasPseudo, detected, SELECTORS.containerFallbacks)
    ELSE detected

DetectAllContainers(cl, k, hasPseudo) ==
    Only({DetectFrom(cl, k, hasPseudo, detected) :
            detected \in
              {[carousels |-> QuerySelectorAll(cl, k, Body, SELECTORS.carouselContainer),
                browse    |-> QuerySelectorAll(cl, k, Body, SELECTORS.browseContainer),
                unknown   |-> <<>>, tried |-> <<>>, failed |-> {}]}})

(***************************************************************************)
(* sortAllContainers                                                       *)
(***************************************************************************)
\* lines 400-405
UnknownType(cl, k, container) ==
    IF QuerySelector(cl, k, container, SELECTORS.carouselCard) # None THEN "carousel"
    ELSE IF QuerySelector(cl, k, container, SELECTORS.browseCard) # None THEN "browse"
    ELSE "generic"

\* the three lists of detected, in the order the three loops visit them
Visits(detected) ==
    [i \in 1..Len(detected.carousels) |->
        [container |-> detected.carousels[i], list |-> "carousels"]]
    \o [i \in 1..Len(detected.browse) |->
        [container |-> detected.browse[i], list |-> "browse"]]
    \o [i \in 1..Len(detected.unknown) |->
        [container |-> detected.unknown[i], list |-> "unknown"]]

\* the body of one forEach callback: lines 366-371, 381-386, 396-412
SortVisit(cl, hfc, hasPseudo, st, v) ==
    IF v.container \in st.pk THEN [st EXCEPT !.skip = @ \cup {v.container}]
    ELSE SortContainer(cl, hfc, hasPseudo, st, v.container,
            CASE v.list = "carousels" -> "carousel"
              [] v.list = "browse"    -> "browse"
              [] OTHER -> UnknownType(cl, st.k, v.container))

\* the last call of sortContainer of the task was left by an exception
LastThrew(srt) == srt # <<>> /\ srt[Len(srt)].threw

RECURSIVE SortEachAborting(_, _, _, _, _)
\* a variant without the try of lines 365, 380 and 395: an exception ends
\* the sweep
SortEachAborting(cl, hfc, hasPseudo, st, visits) ==
    IF visits = <<>> THEN st
    ELSE Only({IF Len(st2.srt) > Len(st.srt) /\ LastThrew(st2.srt) THEN st2
               ELSE SortEachAborting(cl, hfc, hasPseudo, st2, Tail(visits)) :
                 st2 \in {SortVisit(cl, hfc, hasPseudo, st, Head(visits))}})

RECURSIVE SortEach(_, _, _, _, _)
\* the three forEach loops: the catch of lines 372, 387 and 413 ends the
\* callback of a container on which sortContainer throws, and the loop goes on
SortEach(cl, hfc, hasPseudo, st, visits) ==
    IF visits = <<>> THEN st
    ELSE Only({SortEach(cl, hfc, hasPseudo, st2, Tail(visits)) :
                 st2 \in {SortVisit(cl, hfc, hasPseudo, st, Head(visits))}})

\* no call of detectAllContainers
NoDetection ==
    [ran |-> FALSE, k |-> <<>>, carousels |-> <<>>, browse |-> <<>>,
     unknown |-> <<>>, tried |-> <<>>, failed |-> {}]

\* line 357, with the call as the log keeps it, and the three loops
SortAllContainers(cl, hfc, hasPseudo, st) ==
    Only({SortEach(cl, hfc, hasPseudo,
                   [st EXCEPT !.det = [ran |-> TRUE, k |-> st.k] @@ detected],
                   Visits(detected)) :
            detected \in {DetectAllContainers(cl, st.k, hasPseudo)}})

(***************************************************************************)
(* processAllCards                                                         *)
(***************************************************************************)
RECURSIVE AnnotateEachAborting(_, _, _, _)
\* a variant without the try of line 466: the first exception ends the loop
AnnotateEachAborting(cl, hfc, st, cards) ==
    IF cards = <<>> THEN st
    ELSE Only({IF r.threw THEN r.st
               ELSE AnnotateEachAborting(cl, hfc, r.st, Tail(cards)) :
                 r \in {AddRatingToTitle(cl, hfc, st, Head(cards))}})

RECURSIVE AnnotateEach(_, _, _, _)
\* lines 465-475: the catch of line 472 ends the callback of a card on which
\* addRatingToTitle throws, and forEach goes on
AnnotateEach(cl, hfc, st, cards) ==
    IF cards = <<>> THEN st
    ELSE Only({AnnotateEach(cl, hfc, st2, Tail(cards)) :
                 st2 \in {AddRatingToTitle(cl, hfc, st, Head(cards)).st}})

\* a variant that schedules the sweep after every pass that found cards
ProcessedAlwaysSorts(st, done) ==
    [st |-> done, hfc |-> TRUE, rc |-> 0, retry |-> FALSE,
     sort |-> TRUE, found |-> TRUE]

\* a variant that resets the counter and does not record that cards were found
ProcessedNotSteady(st, done) ==
    [st |-> done, hfc |-> FALSE, rc |-> 0, retry |-> FALSE,
     sort |-> done.pc # st.pc, found |-> TRUE]

\* lines 477-486: processedCount is the number of cards newly marked
Processed(st, done) ==
    [st |-> done, hfc |-> TRUE, rc |-> 0, retry |-> FALSE,
     sort |-> done.pc # st.pc, found |-> TRUE]

\* a variant that allows one retry more
MayRetryOnceMore(hfc, rc) == ~hfc /\ rc <= MAX_RETRIES

\* a variant that retries in the Steady state too
MayRetryWhenSteady(hfc, rc) == rc < MAX_RETRIES

\* !hasFoundCards && retryCount < CONFIG.MAX_RETRIES
MayRetry(hfc, rc) == ~hfc /\ rc < MAX_RETRIES

\* lines 447-475, with the inner cards already looked up
ProcessCards(cl, hfc, rc, st, innerCards) ==
    IF innerCards = <<>>
    THEN IF MayRetry(hfc, rc)
         THEN [st |-> st, hfc |-> hfc, rc |-> rc + 1, retry |-> TRUE,
               sort |-> FALSE, found |-> FALSE]
         ELSE [st |-> st, hfc |-> hfc, rc |-> rc, retry |-> FALSE,
               sort |-> FALSE, found |-> FALSE]
    ELSE Only({Processed(st, done) : done \in {AnnotateEach(cl, TRUE, st, innerCards)}})

ProcessAllCards(cl, hfc, rc, st) ==
    Only({ProcessCards(cl, hfc, rc, st, innerCards) :
            innerCards \in {QuerySelectorAll(cl, st.k, Body, SELECTORS.innerCard)}})

(***************************************************************************)
(* The observer callback and debouncedProcessCards                         *)
(***************************************************************************)
\* lines 517-533 for one added node
AddedNodeHasCards(cl, k, node) ==
    \/ \E sel \in {SELECTORS.innerCard, SELECTORS.carouselCard, SELECTORS.browseCard} :
          \E n \in {node} \cup Range(Desc(k, node)) : MatchesSel(cl, k, sel, n)
    \/ \E sel \in {SELECTORS.carouselContainer, SELECTORS.browseContainer} :
          MatchesSel(cl, k, sel, node)

\* lines 511-540
ShouldProcess(cl, k, added) == \E node \in added : AddedNodeHasCards(cl, k, node)

\* a variant that does not clear the pending timer
DebouncedNoClear(pending) == pending + 1

\* lines 493-499 on the number of pending debounce timers
DebouncedProcessCards(pending) == (IF pending > 0 THEN pending - 1 ELSE 0) + 1

(***************************************************************************)
(* Pages.  A layout gives every node its parent at the start (None for a   *)
(* node the page holds back), its element kind and its text; freeR and     *)
(* freeV are the rating and votes elements whose text the page chooses;    *)
(* adds, removable and mutable are what the page may do while the script   *)
(* runs: append a held-back node to a parent, remove a node, rewrite a     *)
(* text; faulty are the nodes on which a call of the host throws: for an    *)
(* inner card the calls that addRatingToTitle and the map callback of       *)
(* sortContainer make on it, for a container the calls that sortContainer  *)
(* makes on it.                                                            *)
(***************************************************************************)
T_title == <<"S">>
T_48 == <<"4", ".", "8">>
T_42 == <<"4", ".", "2">>
T_45 == <<"4", ".", "5">>
T_0 == <<"0">>
T_v5 == <<"(", "5", ")">>
T_v10 == <<"(", "1", "0", ")">>
T_vdot == <<"(", ".", ")">>
T_none == <<>>

RatingChoices == {T_48, T_42, T_0}
VotesChoices == {T_v5, T_v10, T_vdot}

\* an empty page to which the page script appends two carousel cards that
\* hold no inner card
EmptyThenBareCards ==
    [par |-> <<None, None, None, None, None, None, None, None,
               None, None, None, None, None, None, None, None>>,
     tag |-> <<"ccard", "ccard", "none", "none", "none", "none", "none", "none",
               "none", "none", "none", "none", "none", "none", "none", "none">>,
     txt |-> <<T_none, T_none, T_none, T_none, T_none, T_none, T_none, T_none,
               T_none, T_none, T_none, T_none, T_none, T_none, T_none, T_none>>,
     freeR |-> {}, freeV |-> {},
     adds |-> {<<1, Body>>, <<2, Body>>}, removable |-> {}, mutable |-> {},
     pseudo |-> {TRUE}, faulty |-> {}]

\* an empty page; the page script appends a carousel of two cards, then a
\* third card to the carousel
EmptyThenCarousel ==
    [par |-> <<None, 1, 2, 3, 3, 3, 1, 7, 8, 8, 8, None, 12, 13, 13, 13>>,
     tag |-> <<"track", "ccard", "icard", "title", "rating", "votes",
               "ccard", "icard", "title", "rating", "votes",
               "ccard", "icard", "title", "rating", "votes">>,
     txt |-> <<T_none, T_none, T_none, T_title, T_42, T_v5,
               T_none, T_none, T_title, T_48, T_v5,
               T_none, T_none, T_title, T_48, T_v10>>,
     freeR |-> {}, freeV |-> {},
     adds |-> {<<1, Body>>, <<12, 1>>}, removable |-> {}, mutable |-> {},
     pseudo |-> {TRUE}, faulty |-> {}]

\* a carousel of three cards that the page script may remove, and one of
\* whose ratings it may rewrite
ChangingCarousel ==
    [par |-> <<Body, 1, 2, 3, 3, 3, 1, 7, 8, 8, 8, 1, 12, 13, 13, 13>>,
     tag |-> <<"track", "ccard", "icard", "title", "rating", "votes",
               "ccard", "icard", "title", "rating", "votes",
               "ccard", "icard", "title", "rating", "votes">>,
     txt |-> <<T_none, T_none, T_none, T_title, T_42, T_v5,
               T_none, T_none, T_title, T_48, T_v5,
               T_none, T_none, T_title, T_48, T_v10>>,
     freeR |-> {}, freeV |-> {},
     adds |-> {}, removable |-> {1}, mutable |-> {5},
     pseudo |-> {TRUE}, faulty |-> {}]

\* a carousel of three cards, direct children of the track; ratings free
FlatRatings ==
    [par |-> <<Body, 1, 2, 3, 3, 3, 1, 7, 8, 8, 8, 1, 12, 13, 13, 13>>,
     tag |-> <<"track", "ccard", "icard", "title", "rating", "votes",
               "ccard", "icard", "title", "rating", "votes",
               "ccard", "icard", "title", "rating", "votes">>,
     txt |-> <<T_none, T_none, T_none, T_title, T_48, T_v5,
               T_none, T_none, T_title, T_48, T_v10,
               T_none, T_none, T_title, T_48, T_v5>>,
     freeR |-> {5, 10, 15}, freeV |-> {},
     adds |-> {}, removable |-> {}, mutable |-> {},
     pseudo |-> {TRUE}, faulty |-> {}]

\* the same carousel with equal ratings; votes free
FlatVotes ==
    [FlatRatings EXCEPT !.freeR = {}, !.freeV = {6, 11, 16}]

\* a carousel whose first two cards sit in a wrapper element below the track
WrappedCarousel ==
    [par |-> <<Body, 1, 2, 3, 4, 4, 4, 2, 8, 9, 9, 9, 1, 13, 14, 14>>,
     tag |-> <<"track", "none", "ccard", "icard", "title", "rating", "votes",
               "ccard", "icard", "title", "rating", "votes",
               "ccard", "icard", "title", "rating">>,
     txt |-> <<T_none, T_none, T_none, T_none, T_title, T_48, T_v5,
               T_none, T_none, T_title, T_48, T_v5,
               T_none, T_none, T_title, T_45>>,
     freeR |-> {6, 11, 16}, freeV |-> {},
     adds |-> {}, removable |-> {}, mutable |-> {},
     pseudo |-> {TRUE}, faulty |-> {}]

\* a browse collection with a card nested inside its first card
NestedBrowse ==
    [par |-> <<Body, 1, 2, 2, 2, 5, 5, 1, 8, 8, None, None, None, None, None, None>>,
     tag |-> <<"coll", "bicard", "title", "rating", "bicard", "title", "rating",
               "bicard", "title", "rating",
               "none", "none", "none", "none", "none", "none">>,
     txt |-> <<T_none, T_none, T_title, T_48, T_none, T_title, T_48,
               T_none, T_title, T_48,
               T_none, T_none, T_none, T_none, T_none, T_none>>,
     freeR |-> {4, 7, 10}, freeV |-> {},
     adds |-> {}, removable |-> {}, mutable |-> {},
     pseudo |-> {TRUE}, faulty |-> {}]

\* a carousel whose first card holds a browse collection of its own
CollectionInCard ==
    [par |-> <<Body, 1, 2, 3, 3, 5, 6, 5, 8, 5, 10, 1, 12, 13, 13, None>>,
     tag |-> <<"track", "ccard", "icard", "title", "coll",
               "bcard", "rating", "bcard", "rating", "bcard", "rating",
               "ccard", "icard", "title", "rating", "none">>,
     txt |-> <<T_none, T_none, T_none, T_title, T_none,
               T_none, T_0, T_none, T_48, T_none, T_42,
               T_none, T_none, T_title, T_45, T_none>>,
     freeR |-> {}, freeV |-> {},
     adds |-> {}, removable |-> {}, mutable |-> {},
     pseudo |-> {TRUE}, faulty |-> {}]

\* one inner card with a title, a rating and a votes element, in no container
LoneCard ==
    [par |-> <<Body, 1, 1, 1, None, None, None, None,
               None, None, None, None, None, None, None, None>>,
     tag |-> <<"icard", "title", "rating", "votes", "none", "none", "none", "none",
               "none", "none", "none", "none", "none", "none", "none", "none">>,
     txt |-> <<T_none, T_title, T_48, T_v5, T_none, T_none, T_none, T_none,
               T_none, T_none, T_none, T_none, T_none, T_none, T_none, T_none>>,
     freeR |-> {}, freeV |-> {},
     adds |-> {}, removable |-> {}, mutable |-> {},
     pseudo |-> {TRUE}, faulty |-> {}]

\* a carousel of two cards, the second with a faulty inner card, to which
\* the page script appends a third card, and a browse collection of one card
GrowingCarousel ==
    [par |-> <<Body, 1, 2, 3, 3, 1, 6, 7, 7, None, 10, 11, 11, Body, 14, 15>>,
     tag |-> <<"track", "ccard", "icard", "title", "rating",
               "ccard", "icard", "title", "rating",
               "ccard", "icard", "title", "rating",
               "coll", "bcard", "rating">>,
     txt |-> <<T_none, T_none, T_none, T_title, T_42,
               T_none, T_none, T_title, T_48,
               T_none, T_none, T_title, T_48,
               T_none, T_none, T_45>>,
     freeR |-> {}, freeV |-> {},
     adds |-> {<<10, 1>>}, removable |-> {}, mutable |-> {},
     pseudo |-> {TRUE}, faulty |-> {7}]

\* a browse collection of two cards and, between them, a browse collection
\* of its own with one card
NestedCollections ==
    [par |-> <<Body, 1, 2, 2, 1, 5, 6, 6, 1, 9, 9, None, None, None, None, None>>,
     tag |-> <<"coll", "bicard", "title", "rating",
               "coll", "bicard", "title", "rating",
               "bicard", "title", "rating",
               "none", "none", "none", "none", "none">>,
     txt |-> <<T_none, T_none, T_title, T_42,
               T_none, T_none, T_title, T_48,
               T_none, T_title, T_45,
               T_none, T_none, T_none, T_none, T_none>>,
     freeR |-> {}, freeV |-> {},
     adds |-> {}, removable |-> {}, mutable |-> {},
     pseudo |-> {TRUE}, faulty |-> {}]

\* a page whose class names the site has renamed, so that no primary
\* container selector matches: a track with a new hash and two cards, a
\* faulty collection of one card, a scroller around one inner card and an
\* empty track; the engine may or may not know :has()
RenamedPage ==
    [par |-> <<Body, 1, 2, 3, 3, 1, 6, 7, 7, Body, 10, 11, Body, 13, 14, Body>>,
     tag |-> <<"rtrack", "ccard", "bicard", "title", "rating",
               "ccard", "bicard", "title", "rating",
               "fbcoll", "bicard", "rating",
               "fbscroll", "icard", "title", "fbtrack">>,
     txt |-> <<T_none, T_none, T_none, T_title, T_42,
               T_none, T_none, T_title, T_48,
               T_none, T_none, T_45,
               T_none, T_none, T_title, T_none>>,
     freeR |-> {}, freeV |-> {},
     adds |-> {}, removable |-> {}, mutable |-> {},
     pseudo |-> {TRUE, FALSE}, faulty |-> {10}]

\* a faulty carousel of two cards and a browse collection of two cards
\* that has the class scroller too
FaultyTrack ==
    [par |-> <<Body, 1, 2, 3, 3, 1, 6, 7, 7, Body, 10, 11, 11, 10, 14, 14>>,
     tag |-> <<"track", "ccard", "icard", "title", "rating",
               "ccard", "icard", "title", "rating",
               "scoll", "bicard", "title", "rating",
               "bicard", "title", "rating">>,
     txt |-> <<T_none, T_none, T_none, T_title, T_42,
               T_none, T_none, T_title, T_48,
               T_none, T_none, T_title, T_42,
               T_none, T_title, T_48>>,
     freeR |-> {}, freeV |-> {},
     adds |-> {}, removable |-> {}, mutable |-> {},
     pseudo |-> {TRUE}, faulty |-> {1}]

\* a page with one card, to which the page script appends an element that
\* holds an empty carousel track, an empty track of its own and an element
\* that holds a title only
EmptyTracksAdded ==
    [par |-> <<Body, 1, 1, None, 4, None, None, 7,
               None, None, None, None, None, None, None, None>>,
     tag |-> <<"icard", "title", "rating", "none", "track", "track", "none", "title",
               "none", "none", "none", "none", "none", "none", "none", "none">>,
     txt |-> <<T_none, T_title, T_48, T_none, T_none, T_none, T_none, T_title,
               T_none, T_none, T_none, T_none, T_none, T_none, T_none, T_none>>,
     freeR |-> {}, freeV |-> {},
     adds |-> {<<4, Body>>, <<6, Body>>, <<7, Body>>},
     removable |-> {}, mutable |-> {},
     pseudo |-> {TRUE}, faulty |-> {}]

\* an empty page; the page script appends a card that has a title and no
\* rating, then the rating element of the card, and it may remove the card
LateCard ==
    [par |-> <<None, 1, None, None, None, None, None, None,
               None, None, None, None, None, None, None, None>>,
     tag |-> <<"icard", "title", "rating", "none", "none", "none", "none", "none",
               "none", "none", "none", "none", "none", "none", "none", "none">>,
     txt |-> <<T_none, T_title, T_48, T_none, T_none, T_none, T_none, T_none,
               T_none, T_none, T_none, T_none, T_none, T_none, T_none, T_none>>,
     freeR |-> {}, freeV |-> {},
     adds |-> {<<1, Body>>, <<3, 1>>},
     removable |-> {1}, mutable |-> {},
     pseudo |-> {TRUE}, faulty |-> {}]

\* a carousel of two cards and a browse collection of two browse cards that
\* are wrappers around their inner cards; the second card of each has no
\* title
WrappedBrowse ==
    [par |-> <<Body, 1, 2, 3, 3, 1, 6, 7, Body, 9, 10, 11, 11, 9, 14, 15>>,
     tag |-> <<"track", "ccard", "icard", "title", "rating", "ccard", "icard",
               "rating", "coll", "bcard", "icard", "title", "rating",
               "bcard", "icard", "rating">>,
     txt |-> <<T_none, T_none, T_none, T_title, T_42, T_none, T_none,
               T_48, T_none, T_none, T_none, T_title, T_42,
               T_none, T_none, T_48>>,
     freeR |-> {}, freeV |-> {},
     adds |-> {}, removable |-> {}, mutable |-> {},
     pseudo |-> {TRUE}, faulty |-> {}]

Layouts ==
    <<EmptyThenBareCards, EmptyThenCarousel, ChangingCarousel, FlatRatings,
      FlatVotes, WrappedCarousel, NestedBrowse, CollectionInCard, LoneCard,
      GrowingCarousel, NestedCollections, RenamedPage, FaultyTrack,
      EmptyTracksAdded, LateCard, WrappedBrowse>>

\* the children of p in a layout, in node order
InitialKids(l) ==
    [p \in {Body} \cup Nodes |->
        SelectSeq([i \in Nodes |-> i], LAMBDA n : Layouts[l].par[n] = p)]

\* the text a rewrite of a rating puts in place of the current one
OtherRating(t) == IF t = T_48 THEN T_42 ELSE T_48

(***************************************************************************)
(* The controller: initialize, the timers and the observer.  Timers carry  *)
(* no clock: a pending timer may fire at any later step.                   *)
(***************************************************************************)
VARIABLES
    hasPseudo,        \* whether the engine knows :has()
    phase,            \* "start", "waitDOM" (readyState was loading), "running"
    observing,        \* observer.observe(document.body, ...) was called
    intervalOn,       \* periodicInterval is set
    periodicCheck,    \* let periodicCheck
    loadState,        \* "none" or "fired": the window load event
    loadPending,      \* pending setTimeout(processAllCards, 1000)
    retryPending,     \* pending setTimeout(processAllCards, 800)
    debouncePending,  \* pending debounce timers
    sortPending,      \* pending sort timers, by what scheduled them
    scrollPending,    \* per container: pending scroll resets
    scrollResets,     \* per container: scroll resets made so far
    pageChanges,      \* changes the page has made so far
    retriesScheduled, \* retries scheduled so far
    appendCount,      \* per card: suffixes appended to its title so far
    sortCount,        \* per container: reorders so far
    annLog,           \* the addRatingToTitle calls of the last task
    sortLog,          \* the sortContainer calls of the last task
    skipLog,          \* the containers the last task passed over as sorted
    curBurst,         \* notifications since the pending debounce timer was first set
    lastBurst,        \* the notifications the pass of the last task answered
    burstOwn,         \* the pending notifications all come from the script's reorders
    ownReorders,      \* reorders by sweeps that answer only the script's own reorders
    lastFound,        \* what the pass of the last task found: "none" (no pass), "zero", "cards"
    extracted,        \* the result of a call of extractRatingData on its own
    noops,            \* the containers sortContainer has left unsorted and unmarked
    detectLog         \* the detectAllContainers call of the last task

vars ==
    <<layout, kids, text, processedCards, processedContainers, retryCount,
      hasFoundCards, hasPseudo, phase, observing, intervalOn, periodicCheck,
      loadState, loadPending, retryPending, debouncePending, sortPending,
      scrollPending, scrollResets, pageChanges, retriesScheduled, appendCount,
      sortCount,
      annLog, sortLog, skipLog, curBurst, lastBurst, burstOwn, ownReorders,
      lastFound, extracted, noops, detectLog>>

\* the class names of the nodes of the page
Cls ==
    [n \in {Body} \cup Nodes |->
        IF n = Body THEN {} ELSE TagClasses(Layouts[layout].tag[n])]

\* no call of extractRatingData on its own has been made
NoResult == [done |-> FALSE, rating |-> Zero, votes |-> Zero]

\* the script's state when it is loaded: lines 47-52
InitScript ==
    /\ processedCards = {} /\ processedContainers = {}
    /\ retryCount = 0 /\ hasFoundCards = FALSE
    /\ phase = "start" /\ observing = FALSE /\ intervalOn = FALSE
    /\ periodicCheck = 0 /\ loadState = "none" /\ loadPending = 0
    /\ retryPending = 0 /\ debouncePending = 0
    /\ sortPending = [own |-> 0, other |-> 0]
    /\ scrollPending = [n \in Nodes |-> 0] /\ scrollResets = [n \in Nodes |-> 0]
    /\ pageChanges = 0 /\ retriesScheduled = 0
    /\ appendCount = [n \in Nodes |-> 0] /\ sortCount = [n \in Nodes |-> 0]
    /\ annLog = <<>> /\ sortLog = <<>> /\ skipLog = {}
    /\ curBurst = 0 /\ lastBurst = 0 /\ burstOwn = FALSE /\ ownReorders = 0
    /\ lastFound = "none"
    /\ extracted = NoResult
    /\ noops = {}
    /\ detectLog = NoDetection

InitOn(layouts) ==
    /\ layout \in layouts
    /\ kids = InitialKids(layout)
    /\ \E fr \in [Layouts[layout].freeR -> RatingChoices],
          fv \in [Layouts[layout].freeV -> VotesChoices] :
          text = [n \in Nodes |->
                    IF n \in Layouts[layout].freeR THEN fr[n]
                    ELSE IF n \in Layouts[layout].freeV THEN fv[n]
                    ELSE Layouts[layout].txt[n]]
    /\ hasPseudo \in Layouts[layout].pseudo
    /\ InitScript

Init == InitOn(DOMAIN Layouts)

\* the state a task starts from
St0 ==
    [k |-> kids, t |-> text, pc |-> processedCards, pk |-> processedContainers,
     app |-> appendCount, cnt |-> sortCount, ann |-> <<>>, srt |-> <<>>,
     skip |-> {}, added |-> {}, scroll |-> [n \in Nodes |-> 0],
     bad |-> Layouts[layout].faulty, nop |-> noops,
     det |-> NoDetection]

\* what a task leaves in the document and the marker sets
Commit(st) ==
    /\ kids' = st.k
    /\ text' = st.t
    /\ processedCards' = st.pc
    /\ processedContainers' = st.pk
    /\ appendCount' = st.app
    /\ sortCount' = st.cnt
    /\ annLog' = st.ann
    /\ sortLog' = st.srt
    /\ skipLog' = st.skip
    /\ noops' = st.nop
    /\ detectLog' = st.det

\* a run of processAllCards; firedRetry is 1 when a retry timer runs it, and
\* origin says what a sweep it schedules answers
PassWith(out, firedRetry, origin) ==
    /\ Commit(out.st)
    /\ hasFoundCards' = out.hfc
    /\ retryCount' = out.rc
    /\ retryPending' = retryPending - firedRetry + (IF out.retry THEN 1 ELSE 0)
    /\ retriesScheduled' = retriesScheduled + (IF out.retry THEN 1 ELSE 0)
    /\ sortPending' = IF out.sort THEN [sortPending EXCEPT ![origin] = @ + 1]
                      ELSE sortPending
    /\ lastFound' = IF out.found THEN "cards" ELSE "zero"

Pass(firedRetry, origin) ==
    \E cl \in {Cls}, st \in {St0} :
        \E out \in {ProcessAllCards(cl, hasFoundCards, retryCount, st)} :
            PassWith(out, firedRetry, origin)

NoPass ==
    /\ Commit(St0)
    /\ UNCHANGED <<hasFoundCards, retryCount, retryPending, retriesScheduled,
                   sortPending>>
    /\ lastFound' = "none"

\* the observer callback for one batch of records; own tells whether the
\* script's reorder made them
Notify(relevant, own) ==
    IF observing /\ relevant
    THEN /\ debouncePending' = DebouncedProcessCards(debouncePending)
         /\ curBurst' = curBurst + 1
         /\ burstOwn' = (own /\ (curBurst = 0 \/ burstOwn))
    ELSE UNCHANGED <<debouncePending, curBurst, burstOwn>>

NoNotify == UNCHANGED <<debouncePending, curBurst, burstOwn>>

Frame == UNCHANGED <<layout, hasPseudo, extracted>>

\* initialize(): lines 564-608
Initialize ==
    /\ phase = "start"
    /\ \E loading \in BOOLEAN :
          IF loading
          THEN /\ phase' = "waitDOM"
               /\ NoPass
               /\ observing' = FALSE
          ELSE /\ phase' = "running"
               /\ Pass(0, "other")
               /\ observing' = TRUE
    /\ intervalOn' = TRUE
    /\ lastBurst' = 0
    /\ NoNotify /\ Frame
    /\ UNCHANGED <<periodicCheck, loadState, loadPending, scrollPending,
                   scrollResets,
                   pageChanges, ownReorders>>

\* the DOMContentLoaded listener: lines 571-575
DOMContentLoaded ==
    /\ phase = "waitDOM"
    /\ phase' = "running"
    /\ Pass(0, "other")
    /\ observing' = TRUE
    /\ lastBurst' = 0
    /\ NoNotify /\ Frame
    /\ UNCHANGED <<intervalOn, periodicCheck, loadState, loadPending,
                   scrollPending, scrollResets, pageChanges, ownReorders>>

\* setTimeout(processAllCards, 800) fires
RetryTimer ==
    /\ retryPending > 0
    /\ Pass(1, "other")
    /\ lastBurst' = 0
    /\ NoNotify /\ Frame
    /\ UNCHANGED <<phase, observing, intervalOn, periodicCheck, loadState,
                   loadPending, scrollPending, scrollResets, pageChanges,
                   ownReorders>>

\* a variant that never clears the interval
IntervalNeverDone(checks, hfc) == FALSE

\* a variant that clears the interval on the tick budget only
IntervalDoneOnBudget(checks, hfc) == checks >= MAX_PERIODIC_CHECKS

\* periodicCheck >= 4 || hasFoundCards
IntervalDone(checks, hfc) == checks >= MAX_PERIODIC_CHECKS \/ hfc

\* a variant that runs a pass on every tick
TickRunsAlways(hfc) == TRUE

\* if (!hasFoundCards): line 593
TickRuns(hfc) == ~hfc

\* the setInterval callback: lines 590-599
IntervalTick ==
    /\ intervalOn
    /\ periodicCheck' = IF periodicCheck < MAX_PERIODIC_CHECKS
                        THEN periodicCheck + 1 ELSE periodicCheck
    /\ IF TickRuns(hasFoundCards) THEN Pass(0, "other") ELSE NoPass
    /\ intervalOn' = ~IntervalDone(periodicCheck + 1, hasFoundCards')
    /\ lastBurst' = 0
    /\ NoNotify /\ Frame
    /\ UNCHANGED <<phase, observing, loadState, loadPending, scrollPending,
                   scrollResets,
                   pageChanges, ownReorders>>

\* the window load listener: lines 583-586
LoadEvent ==
    /\ phase = "running"
    /\ loadState = "none"
    /\ loadState' = "fired"
    /\ loadPending' = loadPending + 1
    /\ NoPass
    /\ lastBurst' = 0
    /\ NoNotify /\ Frame
    /\ UNCHANGED <<phase, observing, intervalOn, periodicCheck, scrollPending,
                   scrollResets,
                   pageChanges, ownReorders>>

\* setTimeout(processAllCards, 1000) fires
LoadTimer ==
    /\ loadPending > 0
    /\ loadPending' = loadPending - 1
    /\ Pass(0, "other")
    /\ lastBurst' = 0
    /\ NoNotify /\ Frame
    /\ UNCHANGED <<phase, observing, intervalOn, periodicCheck, loadState,
                   scrollPending, scrollResets, pageChanges, ownReorders>>

\* the debounce timer fires: lines 497-499
DebounceTimer ==
    /\ debouncePending > 0
    /\ debouncePending' = debouncePending - 1
    /\ Pass(0, IF burstOwn THEN "own" ELSE "other")
    /\ lastBurst' = curBurst
    /\ curBurst' = 0
    /\ burstOwn' = FALSE
    /\ Frame
    /\ UNCHANGED <<phase, observing, intervalOn, periodicCheck, loadState,
                   loadPending, scrollPending, scrollResets, pageChanges,
                   ownReorders>>

\* the reorders of a sweep
Reorders(st) == Cardinality({c \in Nodes : st.cnt[c] # sortCount[c]})

\* the sort timer fires: lines 481-483; the reorder's records reach the
\* observer when the sweep is over
SortTimerWith(st, origin) ==
    /\ Commit(st)
    /\ sortPending' = [sortPending EXCEPT ![origin] = @ - 1]
    /\ scrollPending' = [n \in Nodes |-> scrollPending[n] + st.scroll[n]]
    /\ ownReorders' = ownReorders + (IF origin = "own" THEN Reorders(st) ELSE 0)
    /\ Notify(ShouldProcess(Cls, st.k, st.added), TRUE)

SortTimer ==
    /\ \E origin \in {"own", "other"} :
          /\ sortPending[origin] > 0
          /\ \E cl \in {Cls}, st0 \in {St0} :
                \E st \in {SortAllContainers(cl, hasFoundCards, hasPseudo, st0)} :
                    SortTimerWith(st, origin)
    /\ lastBurst' = 0 /\ lastFound' = "none"
    /\ Frame
    /\ UNCHANGED <<hasFoundCards, retryCount, retryPending, retriesScheduled,
                   phase, observing, intervalOn, periodicCheck, loadState,
                   loadPending, pageChanges, scrollResets>>

\* container.scrollLeft = 0: lines 332-335
ScrollTimer ==
    /\ \E container \in Nodes :
          /\ scrollPending[container] > 0
          /\ scrollPending' = [scrollPending EXCEPT ![container] = @ - 1]
          /\ scrollResets' = [scrollResets EXCEPT ![container] = @ + 1]
    /\ NoPass
    /\ lastBurst' = 0
    /\ NoNotify /\ Frame
    /\ UNCHANGED <<phase, observing, intervalOn, periodicCheck, loadState,
                   loadPending, pageChanges, ownReorders>>

(***************************************************************************)
(* The page: the single-page application around the script changes the     *)
(* tree while the script runs.                                             *)
(***************************************************************************)
\* a change of the page to the tree k and the texts t; relevant is what the
\* observer callback computes from the records of the change
PageTask(k, t, relevant) ==
    /\ pageChanges < MaxPageChanges
    /\ pageChanges' = pageChanges + 1
    /\ Commit([St0 EXCEPT !.k = k, !.t = t])
    /\ Notify(relevant, FALSE)
    /\ lastBurst' = 0 /\ lastFound' = "none"
    /\ Frame
    /\ UNCHANGED <<hasFoundCards, retryCount, retryPending, retriesScheduled,
                   sortPending, phase, observing, intervalOn, periodicCheck,
                   loadState, loadPending, scrollPending, scrollResets, ownReorders>>

\* parent.appendChild(node) for a node the page held back, below a parent
\* that is in the document
PageAdd ==
    \E a \in Layouts[layout].adds :
        /\ Parent(kids, a[1]) = None
        /\ a[2] = Body \/ InDocument(kids, a[2])
        /\ \E k \in {[kids EXCEPT ![a[2]] = Append(@, a[1])]} :
              PageTask(k, text, ShouldProcess(Cls, k, {a[1]}))

\* node.remove(): the record holds removed nodes only
PageRemove ==
    \E n \in Layouts[layout].removable :
        /\ InDocument(kids, n)
        /\ PageTask([p \in DOMAIN kids |-> SelectSeq(kids[p], LAMBDA y : y # n)],
                    text, FALSE)

\* element.textContent = ... : the record holds a text node
PageSetText ==
    \E n \in Layouts[layout].mutable :
        /\ InDocument(kids, n)
        /\ PageTask(kids, [text EXCEPT ![n] = OtherRating(@)], FALSE)

Next ==
    \/ Initialize
    \/ DOMContentLoaded
    \/ RetryTimer
    \/ IntervalTick
    \/ LoadEvent
    \/ LoadTimer
    \/ DebounceTimer
    \/ SortTimer
    \/ ScrollTimer
    \/ PageAdd
    \/ PageRemove
    \/ PageSetText

Spec == Init /\ [][Next]_vars

(***************************************************************************)
(* Fairness: the host runs a pending timer, and fires DOMContentLoaded on  *)
(* a document that is loading; it owes nothing to the page's own changes   *)
(* nor to the load event.                                                  *)
(***************************************************************************)
Fairness ==
    /\ WF_vars(Initialize)
    /\ WF_vars(DOMContentLoaded)
    /\ WF_vars(RetryTimer)
    /\ WF_vars(IntervalTick)
    /\ WF_vars(LoadTimer)
    /\ WF_vars(DebounceTimer)
    /\ WF_vars(SortTimer)
    /\ WF_vars(ScrollTimer)

\* the pages the runs under fairness start from: the empty page that gets
\* cards without ratings, the carousel that changes, the wrapped carousel,
\* the carousel with a collection in a card and the faulty carousel beside
\* a collection that scrolls
LiveLayouts == {1, 3, 6, 8, 13}

SpecLive == InitOn(LiveLayouts) /\ [][Next]_vars /\ Fairness

(***************************************************************************)
(* extractRatingData on its own: the card of the LoneCard page with any    *)
(* of its sub-elements absent and with the rating text or the votes text   *)
(* drawn from the texts of up to MaxTextLen characters over a small        *)
(* alphabet and from the examples below.                                   *)
(***************************************************************************)
T_v0 == <<"(", "0", ")">>
T_v50 == <<"(", "5", "0", ")">>
T_v121k == <<"(", "1", "2", "1", ".", "4", "k", ")">>
T_v55K == <<"(", "5", ".", "5", "K", ")">>
T_v123 == <<"(", "1", ".", "2", ".", "3", ")">>
T_garbage == <<"g", "a", "r", "b", "a", "g", "e">>
T_vpad == <<" ", "(", "5", "0", ")", " ">>
T_rpad == <<" ", "4", ".", "8", " ">>

TextsUpTo(alphabet, n) == UNION {[1..m -> alphabet] : m \in 0..n}

VotesInputs ==
    TextsUpTo({"(", ")", "5", ".", "k"}, MaxTextLen)
        \cup {T_v0, T_v50, T_v121k, T_v55K, T_v123, T_garbage, T_vpad, T_v10}

RatingInputs ==
    TextsUpTo({"4", ".", "8", "-", "x"}, MaxTextLen) \cup {T_garbage, T_rpad, T_0}

\* the sub-elements present, the rating text and the votes text
ExtractInputs ==
    {[present |-> {2, 3, 4}, r |-> T_48, v |-> tv] : tv \in VotesInputs}
        \cup {[present |-> {2, 3, 4}, r |-> tr, v |-> T_v5] : tr \in RatingInputs}
        \cup {[present |-> pr, r |-> T_48, v |-> T_v5] : pr \in SUBSET {2, 3, 4}}

InitExtract ==
    /\ layout = 9
    /\ hasPseudo = TRUE
    /\ \E in \in ExtractInputs :
          /\ kids = [InitialKids(9) EXCEPT
                        ![1] = SelectSeq(@, LAMBDA n : n \in in.present)]
          /\ text = [Layouts[9].txt EXCEPT ![3] = in.r, ![4] = in.v]
    /\ InitScript

\* extractRatingData(card) for the card of the page: lines 143-161
Extract ==
    /\ ~extracted.done
    /\ \E cl \in {Cls} :
          extracted' = [done |-> TRUE] @@ ExtractRatingData(cl, kids, text, 1)
    /\ UNCHANGED <<layout, kids, text, processedCards, processedContainers,
                   retryCount, hasFoundCards, hasPseudo, phase, observing,
                   intervalOn, periodicCheck, loadState, loadPending,
                   retryPending, debouncePending, sortPending, scrollPending,
                   scrollResets,
                   pageChanges, retriesScheduled, appendCount, sortCount,
                   annLog, sortLog, skipLog, curBurst, lastBurst, burstOwn,
                   ownReorders, lastFound, noops, detectLog>>

NextExtract == Extract

SpecExtract == InitExtract /\ [][NextExtract]_vars

(***************************************************************************)
(* Properties of the sort engine                                           *)
(***************************************************************************)
CountIn(s, x) == Cardinality({i \in DOMAIN s : s[i] = x})

IndexIn(s, x) == CHOOSE i \in DOMAIN s : s[i] = x

SortCalls == {sortLog[i] : i \in DOMAIN sortLog}

RatedElements(rec) == {rec.rated[i].element : i \in DOMAIN rec.rated}

\* the cards of a call that are not rated, in the order of the card list
UnratedCards(rec) == SelectSeq(rec.cards, LAMBDA c : c \notin RatedElements(rec))

\* C1: the multiset of the container's children is the same before and after
\* every call of sortContainer.
C1_ChildrenPreserved ==
    \A rec \in SortCalls : \A x \in Nodes :
        CountIn(rec.post[rec.container], x) = CountIn(rec.pre[rec.container], x)

\* a before b agrees with rating descending, then votes descending, then the
\* original order; a pair with a votes value that is not a number is let pass
InSortOrder(rec, a, b) ==
    \/ CmpNum(a.rating, b.rating) > 0
    \/ /\ CmpNum(a.rating, b.rating) = 0
       /\ \/ IsNaN(a.votes) \/ IsNaN(b.votes)
          \/ CmpNum(a.votes, b.votes) > 0
          \/ /\ CmpNum(a.votes, b.votes) = 0
             /\ IndexIn(rec.cards, a.element) < IndexIn(rec.cards, b.element)

\* the rated cards of a call in the order they have among the container's
\* children after it
RatedAfter(rec) ==
    SelectSeq(rec.post[rec.container], LAMBDA c : c \in RatedElements(rec))

ItemOf(rec, c) == rec.rated[CHOOSE i \in DOMAIN rec.rated : rec.rated[i].element = c]

\* C2: after a reorder the rated cards are in rating-descending order, equal
\* ratings in votes-descending order, equal cards in their original order.
C2_RatedOrder ==
    \A rec \in SortCalls : rec.ret =>
        \A i, j \in DOMAIN RatedAfter(rec) : i < j =>
            InSortOrder(rec, ItemOf(rec, RatedAfter(rec)[i]),
                        ItemOf(rec, RatedAfter(rec)[j]))

\* the position of a node among the descendants of the container
PosBelow(k, container, c) == IndexIn(Desc(k, container), c)

\* C3 as stated: after a reorder every unrated card of the card list comes
\* after every rated card, and the unrated cards keep their order.
C3_UnratedLast ==
    \A rec \in SortCalls : rec.ret =>
        /\ \A u \in Range(UnratedCards(rec)) : \A r \in RatedElements(rec) :
              PosBelow(rec.post, rec.container, u) > PosBelow(rec.post, rec.container, r)
        /\ \A i, j \in DOMAIN UnratedCards(rec) : i < j =>
              PosBelow(rec.post, rec.container, UnratedCards(rec)[i])
                < PosBelow(rec.post, rec.container, UnratedCards(rec)[j])

\* the unrated cards of a call that were children of the container
UnratedChildren(rec) ==
    SelectSeq(UnratedCards(rec), LAMBDA c : Parent(rec.pre, c) = rec.container)

\* the last n elements of s
LastOf(s, n) == SubSeq(s, Len(s) - n + 1, Len(s))

\* C3 amended: after a reorder the container's children end with the rated
\* cards in sorted order followed by the unrated cards that were children of
\* the container, in their original order; an unrated card that was not a
\* child of the container stays with its parent.
C3_UnratedChildrenLast ==
    \A rec \in SortCalls : rec.ret =>
        /\ Len(rec.post[rec.container]) >= Len(rec.rated) + Len(UnratedChildren(rec))
        /\ LastOf(rec.post[rec.container], Len(rec.rated) + Len(UnratedChildren(rec)))
             = [i \in DOMAIN rec.rated |-> rec.rated[i].element] \o UnratedChildren(rec)
        /\ \A u \in Range(UnratedCards(rec)) :
              Parent(rec.pre, u) # rec.container =>
                  Parent(rec.post, u) = Parent(rec.pre, u)

\* a reorder of two rated cards and an unrated child of the container
C3_Witness ==
    \E rec \in SortCalls :
        /\ rec.ret
        /\ UnratedChildren(rec) # <<>>
        /\ Len(rec.rated) >= 2

\* C4: a container is reordered at most once over a run; a call on a marked
\* container returns false and leaves the tree alone, and a sweep that meets
\* a marked container makes no call on it: the only call a sweep makes on a
\* container it also passes over is the one that reordered and marked it,
\* when the detection lists the container twice.
C4_SortedOnce ==
    /\ \A c \in Nodes : sortCount[c] <= 1
    /\ \A rec \in SortCalls : rec.marked => ~rec.ret /\ rec.post = rec.pre
    /\ \A c \in skipLog : \A rec \in SortCalls :
          rec.container = c => rec.ret /\ ~rec.marked

\* a sweep met a sorted carousel again after the page had added a card to it
C4_Witness ==
    /\ layout = 2
    /\ 1 \in skipLog
    /\ 12 \in Range(kids[1])
    /\ sortCount[1] = 1

(***************************************************************************)
(* Properties of the annotator                                             *)
(***************************************************************************)
AnnotateCalls == {annLog[i] : i \in DOMAIN annLog}

\* C5: however often addRatingToTitle runs on a card, its title is appended
\* to at most once, and holds at most one parenthesised suffix.
C5_AppendedOnce ==
    /\ \A c \in Nodes : appendCount[c] <= 1
    /\ \A n \in Nodes : CountIn(text[n], "(") <= 1 \/ Layouts[layout].tag[n] # "title"

\* addRatingToTitle ran again on a card whose title it had appended to
C5_Witness ==
    \E rec \in AnnotateCalls : rec.marked /\ appendCount[rec.card] = 1

\* C6: addRatingToTitle returns false and changes neither a text nor the
\* processedCards set when the card is marked, has no title element or has
\* the rating 0.
C6_NoOpCases ==
    \A rec \in AnnotateCalls :
        (rec.marked \/ ~rec.hasTitle \/ rec.zero) => ~rec.ret /\ ~rec.changed

\* one task ran it on a marked card, on a card without title element and on
\* an unmarked, titled card of rating 0
C6_Witness ==
    /\ \E rec \in AnnotateCalls : rec.marked
    /\ \E rec \in AnnotateCalls : ~rec.hasTitle /\ ~rec.threw
    /\ \E rec \in AnnotateCalls : ~rec.marked /\ rec.hasTitle /\ rec.zero /\ rec.steady

(***************************************************************************)
(* Properties of the controller                                            *)
(***************************************************************************)
\* C7: while no pass has found a card at most MAX_RETRIES retries have been
\* scheduled, and a run in which no pass finds a card comes to exactly
\* MAX_RETRIES scheduled retries with none pending, for good.
C7_ExactlyMaxRetries ==
    /\ [](~hasFoundCards => retriesScheduled <= MAX_RETRIES)
    /\ <>[](hasFoundCards \/ (retriesScheduled = MAX_RETRIES /\ retryPending = 0))

\* the retries are used up and no pass has found a card
C7_Witness ==
    /\ ~hasFoundCards
    /\ retriesScheduled = MAX_RETRIES
    /\ retryPending = 0
    /\ lastFound = "zero"

\* C8 as stated: once a pass has found a card no retry is scheduled and no
\* retry timer runs a pass.
C8_NoRetryWhenSteady ==
    [][hasFoundCards =>
          /\ retriesScheduled' = retriesScheduled
          /\ retryPending' = retryPending]_vars

\* C8 amended: once a pass has found a card the controller stays Steady, no
\* retry is scheduled any more and the retry counter stays 0; the retry
\* timers that were pending at that point still fire, each running one pass.
C8_NoRetryScheduledWhenSteady ==
    [][hasFoundCards =>
          /\ hasFoundCards'
          /\ retriesScheduled' = retriesScheduled
          /\ retryPending' <= retryPending
          /\ retryCount = 0 /\ retryCount' = 0]_vars

\* Steady, and the pass of the last task found no card and scheduled nothing
C8_Witness ==
    /\ hasFoundCards
    /\ lastFound = "zero"
    /\ retriesScheduled < MAX_RETRIES

\* C9: the notifications that arrive while a debounce timer is pending leave
\* exactly one timer pending, which runs one pass for all of them.
C9_OnePassPerBurst ==
    /\ debouncePending \in {0, 1}
    /\ debouncePending = 1 <=> curBurst > 0
    /\ lastBurst > 0 => curBurst = 0

\* a debounce pass has answered two or more notifications
C9_Witness ==
    /\ lastBurst >= 2
    /\ debouncePending = 0
    /\ lastFound # "none"

\* no timer is pending and the interval is cleared
Quiet ==
    /\ phase = "running"
    /\ ~intervalOn
    /\ retryPending = 0 /\ loadPending = 0 /\ debouncePending = 0
    /\ sortPending.own = 0 /\ sortPending.other = 0
    /\ \A c \in Nodes : scrollPending[c] = 0

\* C10 as stated, the part a finite run refutes: no reorder is made by a
\* sweep that answers only the notifications of the script's own reorders.
C10_NoOwnReorder == ownReorders = 0

\* C10 amended: when the page stops changing the script comes to rest with
\* no timer pending; its own reorders can bring about a further sweep, which
\* reorders only containers not reordered before, so at most one reorder per
\* container.
C10_Quiescence ==
    /\ [](ownReorders <= Cardinality({c \in Nodes : sortCount[c] = 1}))
    /\ [](\A c \in Nodes : sortCount[c] <= 1)
    /\ <>[]Quiet

\* at rest after a sweep that answered the script's own reorder and
\* reordered another container
C10_Witness ==
    /\ Quiet
    /\ ownReorders = 1
    /\ pageChanges = 0

(***************************************************************************)
(* Properties of the page as a whole                                       *)
(***************************************************************************)
\* the containers a sweep would visit now, each with the type the sweep
\* would pass to sortContainer
VisitsNow ==
    Only({Visits(detected) : detected \in {DetectAllContainers(Cls, kids, hasPseudo)}})

TypeOfVisit(v) ==
    CASE v.list = "carousels" -> "carousel"
      [] v.list = "browse"    -> "browse"
      [] OTHER -> UnknownType(Cls, kids, v.container)

\* the cards sortContainer would resolve for a visit now
CardsNow(v) ==
    Only({IF sel = NoSelector THEN <<>>
          ELSE QuerySelectorAll(Cls, kids, v.container, sel) :
            sel \in {CardSelector(Cls, kids, v.container, TypeOfVisit(v), hasPseudo)}})

\* the rating sortContainer would extract for a card now
RatingNow(card) ==
    Only({ExtractRatingData(Cls, kids, text, innerCard).rating :
            innerCard \in {InnerOr(found, card) :
                found \in {QuerySelector(Cls, kids, card, SELECTORS.innerCard)}}})

\* the ratings of the rated cards of a visit, in document order
RatedRatingsNow(v) ==
    Only({SelectSeq([i \in DOMAIN cards |-> RatingNow(cards[i])], GtZero) :
            cards \in {CardsNow(v)}})

NonIncreasing(rs) == \A i, j \in DOMAIN rs : i < j => CmpNum(rs[i], rs[j]) >= 0

\* C11 as stated: at rest, in every container the rated cards are in
\* non-increasing rating order, cards added after the first sort included.
C11_HigherRatedFirst ==
    Quiet => \A i \in DOMAIN VisitsNow : NonIncreasing(RatedRatingsNow(VisitsNow[i]))

\* the children of a that remain in b have the order in b that they had in a
KeepsOrder(a, b) ==
    SelectSeq(a, LAMBDA x : x \in Range(b)) = SelectSeq(b, LAMBDA x : x \in Range(a))

\* C11 amended: every reorder leaves the rated cards it resolved as children
\* of the container in non-increasing rating order; afterwards the container
\* is not reordered again and no step of the script changes the relative
\* order of its children, so a rated card the page adds later stays where
\* the page put it.
C11_SortedWhenReordered ==
    /\ [](\A rec \in SortCalls : rec.ret =>
            /\ Len(RatedAfter(rec)) = Len(rec.rated)
            /\ \A i, j \in DOMAIN RatedAfter(rec) : i < j =>
                  CmpNum(ItemOf(rec, RatedAfter(rec)[i]).rating,
                         ItemOf(rec, RatedAfter(rec)[j]).rating) >= 0)
    /\ [][pageChanges' = pageChanges =>
            \A c \in Nodes : sortCount[c] = 1 =>
                sortCount'[c] = 1 /\ KeepsOrder(kids[c], kids'[c])]_vars

\* at rest, with a rated and annotated card that the page added to the
\* carousel after its reorder, behind a card of lower rating
C11_Witness ==
    /\ layout = 2
    /\ Quiet
    /\ sortCount[1] = 1
    /\ kids[1] = <<7, 2, 12>>
    /\ 13 \in processedCards
    /\ 1 \in skipLog

(***************************************************************************)
(* Properties of the text parser and the extractor                         *)
(***************************************************************************)
IsDigits(ds) == ds # <<>> /\ \A i \in DOMAIN ds : ds[i] \in Digits

\* num as digits ['.' digits]
DecimalParts(num) ==
    Only({[ok |-> /\ ip # <<>>
                  /\ \/ Len(ip) = Len(num)
                     \/ /\ num[Len(ip) + 1] = "."
                        /\ IsDigits(SubSeq(num, Len(ip) + 2, Len(num))),
           ip |-> ip, fp |-> SubSeq(num, Len(ip) + 2, Len(num))] :
            ip \in {DigitPrefix(num)}})

\* the inside of "(...)" as a number and an optional k or K
GrammarInside(inner) ==
    IF inner # <<>> /\ inner[Len(inner)] \in {"k", "K"}
    THEN [k |-> TRUE] @@ DecimalParts(SubSeq(inner, 1, Len(inner) - 1))
    ELSE [k |-> FALSE] @@ DecimalParts(inner)

\* s as a whole against the grammar '(' digits ['.' digits] [k|K] ')'
GrammarMatch(s) ==
    IF Len(s) >= 3 /\ s[1] = "(" /\ s[Len(s)] = ")"
    THEN GrammarInside(SubSeq(s, 2, Len(s) - 1))
    ELSE [k |-> FALSE, ok |-> FALSE, ip |-> <<>>, fp |-> <<>>]

\* some part of s matches the grammar
ContainsGrammar(s) ==
    \E i, j \in 1..Len(s) : i < j /\ GrammarMatch(SubSeq(s, i, j)).ok

\* x is the decimal ip.fp times mult
SameValue(x, ip, fp, mult) ==
    /\ ~IsNaN(x)
    /\ x.m * Pow10(Len(fp)) = DigitsValue(ip \o fp) * mult * Pow10(x.e)

VotesPresent == 4 \in Range(kids[1])
RatingPresent == 3 \in Range(kids[1])

\* the votes text as extractRatingData reads it
VotesTextNow == Trim(text[4])

\* C12: parseVotes gives 0 for an absent votes element and for every text
\* that holds no match of the grammar, and the decimal value for a text that
\* matches it without suffix.
C12_VotesGrammar ==
    extracted.done =>
        /\ ~VotesPresent => extracted.votes = Zero
        /\ VotesPresent /\ ~ContainsGrammar(VotesTextNow) => extracted.votes = Zero
        /\ \A g \in {GrammarMatch(VotesTextNow)} :
              VotesPresent /\ g.ok /\ ~g.k => SameValue(extracted.votes, g.ip, g.fp, 1)

\* C13: for a votes text that matches the grammar, parseVotes gives the
\* decimal times 1000 when the text ends in k or K and the decimal itself
\* when it does not; "(121.4k)" gives 121400.
C13_KiloMultiplier ==
    extracted.done /\ VotesPresent =>
        /\ \A g \in {GrammarMatch(VotesTextNow)} :
              g.ok => SameValue(extracted.votes, g.ip, g.fp, IF g.k THEN 1000 ELSE 1)
        /\ text[4] = T_v121k => extracted.votes = [m |-> 121400, e |-> 0]
        /\ text[4] = T_v50 => extracted.votes = [m |-> 50, e |-> 0]

\* extractRatingData has read "(121.4k)"
C13_Witness ==
    /\ extracted.done
    /\ VotesPresent
    /\ text[4] = T_v121k
    /\ extracted.votes.m > 1000

\* C14: parseRating gives 0 for every rating text that is not a decimal, and
\* the extracted rating is 0 or a positive number.
C14_RatingZeroOrPositive ==
    extracted.done =>
        /\ EqZero(extracted.rating) \/ GtZero(extracted.rating)
        /\ RatingPresent /\ ~DecimalParts(Trim(text[3])).ok => extracted.rating = Zero

\* C15: extractRatingData returns for every combination of present and
\* absent sub-elements, with the rating 0 when the rating element is absent
\* and the votes 0 when the votes element is absent.
C15_ExtractTotal ==
    /\ ~extracted.done => ENABLED Extract
    /\ extracted.done =>
        /\ ~RatingPresent => extracted.rating = Zero
        /\ ~VotesPresent => extracted.votes = Zero

\* extractRatingData has returned for a card with no sub-element at all
C15_Witness ==
    /\ extracted.done
    /\ kids[1] = <<>>

(***************************************************************************)
(* Properties of a processing pass and of a sweep                          *)
(***************************************************************************)
InnerCardsNow == QuerySelectorAll(Cls, kids, Body, SELECTORS.innerCard)

\* addRatingToTitle would write to the title of the card now
Annotatable(card) ==
    \E titleElement \in {QuerySelector(Cls, kids, card, SELECTORS.title)},
       rating \in {ExtractRatingData(Cls, kids, text, card).rating} :
        /\ titleElement # None
        /\ GtZero(rating)
        /\ ~Includes(text[titleElement], RatingSuffix(rating))

SweepsPending == sortPending.own + sortPending.other

\* C16: after a pass that found cards, whether or not addRatingToTitle threw
\* on some of them, every inner card of the document was visited, no card
\* without fault is left that the annotator would still write to, and a
\* sweep is pending when the pass annotated a card.
C16_FaultIsolated ==
    lastFound = "cards" =>
        /\ \A c \in Range(InnerCardsNow) : \E rec \in AnnotateCalls : rec.card = c
        /\ \A c \in Range(InnerCardsNow) \ Layouts[layout].faulty :
              c \in processedCards \/ ~Annotatable(c)
        /\ (\E rec \in AnnotateCalls : rec.ret) => SweepsPending > 0

\* a pass in which addRatingToTitle threw on one card and annotated a card
\* that came after it, with the sweep scheduled
C16_Witness ==
    /\ lastFound = "cards"
    /\ \E i, j \in DOMAIN annLog : i < j /\ annLog[i].threw /\ annLog[j].ret
    /\ SweepsPending > 0

\* a step that runs processAllCards
PassStep == lastFound' # "none"

\* C17: a pass schedules one sweep when it newly annotated a card and none
\* when it did not, and runs no part of a sweep itself: it calls
\* sortContainer on no container and leaves the tree as it is.
C17_SweepIffAnnotated ==
    [][PassStep =>
          /\ SweepsPending' =
                SweepsPending + (IF \E i \in DOMAIN annLog' : annLog'[i].ret
                                 THEN 1 ELSE 0)
          /\ sortLog' = <<>> /\ skipLog' = {}
          /\ kids' = kids /\ sortCount' = sortCount
          /\ processedContainers' = processedContainers]_vars

\* after a pass that newly annotated a card: the sweep is pending and no
\* container has been sorted
C17_Witness ==
    /\ lastFound = "cards"
    /\ \E rec \in AnnotateCalls : rec.ret
    /\ SweepsPending = 1
    /\ processedContainers = {}
    /\ \E i \in DOMAIN VisitsNow : Len(CardsNow(VisitsNow[i])) >= 2

\* a step that runs sortAllContainers
SweepStep == SweepsPending' < SweepsPending

\* C18: a call of sortContainer on an unmarked container that resolves fewer
\* than 2 cards or fewer than 2 rated cards returns false, leaves the tree as
\* it is and sets no marker; every later sweep that detects the container
\* calls sortContainer on it again.
C18_NoOpLeavesUnmarked ==
    /\ [](\A rec \in SortCalls :
            ~rec.marked /\ (Len(rec.cards) < 2 \/ Len(rec.rated) < 2) =>
                ~rec.ret /\ rec.post = rec.pre /\ ~rec.markedAfter)
    /\ [][SweepStep =>
            \A i \in DOMAIN VisitsNow :
                VisitsNow[i].container \in noops \ processedContainers =>
                    \E j \in DOMAIN sortLog' :
                        /\ sortLog'[j].container = VisitsNow[i].container
                        /\ ~sortLog'[j].marked]_vars

\* a sweep has reordered the carousel it had left unsorted for want of rated
\* cards, and has called sortContainer again on the collection of one card
C18_Witness ==
    /\ layout = 10
    /\ {1, 14} \subseteq noops
    /\ \E rec \in SortCalls : rec.container = 1 /\ rec.ret
    /\ \E rec \in SortCalls : rec.container = 14 /\ ~rec.ret /\ Len(rec.cards) < 2
    /\ 14 \notin processedContainers

(***************************************************************************)
(* Properties of the rebuild                                               *)
(***************************************************************************)
\* the cards of a call: the resolved cards and their data-bearing inner cards
CardsOf(rec) ==
    Range(rec.cards) \cup {rec.all[i].innerCard : i \in DOMAIN rec.all}

\* C19: after a reorder a card whose immediate parent was a wrapper, not the
\* container, is still a child of that wrapper, which is a child of the
\* container (the wrapper was the unit moved); a card that was a child of
\* the container is still one (it was moved itself).
C19_WrapperMoved ==
    \A rec \in SortCalls : rec.ret =>
        \A c \in CardsOf(rec) :
            IF Parent(rec.pre, c) = rec.container
            THEN Parent(rec.post, c) = rec.container
            ELSE Parent(rec.post, c) = Parent(rec.pre, c)

\* C20: a reorder never makes a resolved card a child of the container that
\* was not one when sortContainer was called.
C20_NoReparenting ==
    \A rec \in SortCalls : rec.ret =>
        \A c \in Range(rec.cards) :
            Parent(rec.pre, c) # rec.container => Parent(rec.post, c) # rec.container

\* the nodes of a child list that are not resolved cards of the call
NonCards(rec, s) == SelectSeq(s, LAMBDA x : x \notin Range(rec.cards))

\* C21: a call of sortContainer touches the place of no node outside the
\* resolved card set: every node that is not a resolved card keeps its
\* parent, and in every child list, the container's included, the nodes that
\* are not resolved cards stay, in the order they had.
C21_OthersUntouched ==
    \A rec \in SortCalls :
        /\ \A n \in Nodes \ Range(rec.cards) : Parent(rec.post, n) = Parent(rec.pre, n)
        /\ \A p \in DOMAIN rec.pre : NonCards(rec, rec.post[p]) = NonCards(rec, rec.pre[p])

\* a reorder of a container one of whose children is not a card
C21_Witness ==
    \E rec \in SortCalls :
        /\ rec.ret
        /\ NonCards(rec, rec.pre[rec.container]) # <<>>
        /\ rec.post # rec.pre

\* C22: the card lists of two calls of sortContainer of one sweep share no
\* card, and a call changes the child list of no other container of the
\* sweep, nested containers included.
C22_OneContainerPerCard ==
    \A r1, r2 \in SortCalls : r1.container # r2.container =>
        /\ Range(r1.cards) \cap Range(r2.cards) = {}
        /\ r1.post[r2.container] = r1.pre[r2.container]

(***************************************************************************)
(* Properties of the container detection                                   *)
(***************************************************************************)
\* the containers of the three lists of the last detection
Detected ==
    Range(detectLog.carousels) \cup Range(detectLog.browse)
        \cup Range(detectLog.unknown)

\* n had a descendant of the card shape sel when the detection ran
HadBelow(n, sel) == QuerySelectorAll(Cls, detectLog.k, n, sel) # <<>>

\* the document had a node matching sel when the detection ran
PageHad(sel) == QuerySelectorAll(Cls, detectLog.k, Body, sel) # <<>>

\* C23: when the primary carousel-container selector or the primary
\* browse-container selector matches a node, detectAllContainers returns the
\* two primary results with an empty unknown list and queries no fallback
\* selector.
C23_PrimaryOnly ==
    detectLog.ran
      /\ (PageHad(SELECTORS.carouselContainer) \/ PageHad(SELECTORS.browseContainer))
    => /\ detectLog.unknown = <<>>
       /\ detectLog.tried = <<>>
       /\ detectLog.carousels =
             QuerySelectorAll(Cls, detectLog.k, Body, SELECTORS.carouselContainer)
       /\ detectLog.browse =
             QuerySelectorAll(Cls, detectLog.k, Body, SELECTORS.browseContainer)

\* a detection on a page with a primary carousel container and no primary
\* browse container; the container matches a fallback selector too
C23_Witness ==
    /\ detectLog.ran
    /\ detectLog.carousels # <<>>
    /\ detectLog.browse = <<>>
    /\ \E n \in Range(detectLog.carousels) : MatchesSel(Cls, detectLog.k, "contFb3", n)

\* the fallback selectors of the last detection that did not throw
Answered == Range(detectLog.tried) \ detectLog.failed

\* n was in the document and matched a fallback selector that did not throw
FallbackMatched(n) ==
    /\ InDocument(detectLog.k, n)
    /\ \E sel \in Answered : MatchesSel(Cls, detectLog.k, sel, n)

\* C24: in fallback detection a node matched by a fallback selector is in
\* carousels exactly if it has a carousel card below it, in browse exactly if
\* it has no carousel card but a browse card, in unknown exactly if it has
\* neither but an inner card, and in no list if it has none of the three; a
\* node no fallback selector matches is in no list.
C24_BucketPriority ==
    detectLog.ran /\ detectLog.tried # <<>> =>
        \A n \in Nodes :
            /\ n \in Range(detectLog.carousels) <=>
                  FallbackMatched(n) /\ HadBelow(n, SELECTORS.carouselCard)
            /\ n \in Range(detectLog.browse) <=>
                  /\ FallbackMatched(n)
                  /\ ~HadBelow(n, SELECTORS.carouselCard)
                  /\ HadBelow(n, SELECTORS.browseCard)
            /\ n \in Range(detectLog.unknown) <=>
                  /\ FallbackMatched(n)
                  /\ ~HadBelow(n, SELECTORS.carouselCard)
                  /\ ~HadBelow(n, SELECTORS.browseCard)
                  /\ HadBelow(n, SELECTORS.innerCard)

\* a fallback detection that filled the three lists and discarded a matched
\* node; the node in carousels has browse cards and inner cards below it too,
\* the node in browse has inner cards
C24_Witness ==
    /\ detectLog.ran
    /\ \E n \in Range(detectLog.carousels) :
          HadBelow(n, SELECTORS.browseCard) /\ HadBelow(n, SELECTORS.innerCard)
    /\ \E n \in Range(detectLog.browse) : HadBelow(n, SELECTORS.innerCard)
    /\ detectLog.unknown # <<>>
    /\ \E n \in Nodes \ Detected : FallbackMatched(n)

\* how often n is in the lists of the last detection
Occurrences(n) ==
    CountIn(detectLog.carousels, n) + CountIn(detectLog.browse, n)
        + CountIn(detectLog.unknown, n)

\* C25: every container of a detection is in exactly one of the three lists,
\* once, and the calls of sortContainer of a sweep on one container pass one
\* container type.
C25_OneKind ==
    /\ \A n \in Detected : Occurrences(n) = 1
    /\ \A r1, r2 \in SortCalls : r1.container = r2.container => r1.type = r2.type

\* a card shape below n
HadCards(n) ==
    \/ HadBelow(n, SELECTORS.carouselCard)
    \/ HadBelow(n, SELECTORS.browseCard)
    \/ HadBelow(n, SELECTORS.innerCard)

C27_SweepIsolated ==
    detectLog.ran =>
        /\ \A n \in Detected :
              n \in skipLog \/ \E rec \in SortCalls : rec.container = n
        /\ \A rec \in SortCalls : rec.threw =>
              rec.post = rec.pre /\ rec.container \notin processedContainers
        /\ \A rec \in SortCalls :
              ~rec.threw /\ ~rec.marked /\ Len(rec.rated) >= 2 =>
                  rec.ret /\ rec.container \in processedContainers

\* a sweep in which sortContainer reordered a container of the carousels
\* list, then threw on the container of the browse list, and was then
\* called on the container of the unknown list
C27_Witness ==
    /\ detectLog.ran
    /\ \E i, j, l \in DOMAIN sortLog :
          /\ i < j /\ j < l
          /\ sortLog[i].ret /\ sortLog[i].container \in Range(detectLog.carousels)
          /\ sortLog[j].threw /\ sortLog[j].container \in Range(detectLog.browse)
          /\ ~sortLog[l].threw /\ sortLog[l].container \in Range(detectLog.unknown)

(***************************************************************************)
(* Properties of the safety-net interval and of the observer               *)
(***************************************************************************)
\* a step that runs the setInterval callback
TickStep == periodicCheck' # periodicCheck

\* C28: the interval callback runs at most MAX_PERIODIC_CHECKS times; a tick
\* runs a processing pass exactly if no pass has found a card before it; the
\* interval is cleared in the first tick that ends with a card found or is
\* the MAX_PERIODIC_CHECKS-th, and once cleared it stays cleared.
C28_SafetyNet ==
    /\ [](periodicCheck <= MAX_PERIODIC_CHECKS)
    /\ [][TickStep =>
            /\ intervalOn
            /\ periodicCheck' = periodicCheck + 1
            /\ lastFound' # "none" <=> ~hasFoundCards
            /\ intervalOn' <=>
                  ~hasFoundCards' /\ periodicCheck' < MAX_PERIODIC_CHECKS]_vars
    /\ [][~intervalOn /\ phase # "start" => ~intervalOn' /\ ~TickStep]_vars

\* the interval was cleared by its last tick with no card found
C28_Witness ==
    /\ periodicCheck = MAX_PERIODIC_CHECKS
    /\ ~intervalOn
    /\ ~hasFoundCards
    /\ lastFound = "zero"

\* a step in which the page changes the tree or a text
PageStep == pageChanges' = pageChanges + 1

\* the nodes a step appends to the document: the added nodes of its record
AddedNodes == {n \in Nodes : Parent(kids, n) = None /\ Parent(kids', n) # None}

CardShapes == {SELECTORS.innerCard, SELECTORS.carouselCard, SELECTORS.browseCard}

ContainerShapes == {SELECTORS.carouselContainer, SELECTORS.browseContainer}

\* n or a descendant of n matches one of the selectors, in the tree k
ShapeAtOrBelow(k, n, sels) ==
    \E sel \in sels : \E m \in {n} \cup Range(Desc(k, n)) : MatchesSel(Cls, k, sel, m)

\* C29: a change of the page that the observer is told of schedules a
\* debounced pass exactly if one of its added nodes matches a card shape or a
\* container shape or has a descendant that does; a change with no such
\* added node schedules nothing.
C29_NotifyOnShapes ==
    [][PageStep /\ observing =>
          IF \E n \in AddedNodes :
                ShapeAtOrBelow(kids', n, CardShapes \cup ContainerShapes)
          THEN curBurst' = curBurst + 1 /\ debouncePending' = 1
          ELSE curBurst' = curBurst /\ debouncePending' = debouncePending]_vars

(***************************************************************************)
(* Properties of the scroll reset                                          *)
(***************************************************************************)
\* the calls of a step's task that reordered container c as a carousel, or
\* with carousel or scroller in its class names
ScrollingReorders(c) ==
    {i \in DOMAIN sortLog' :
        /\ sortLog'[i].container = c
        /\ sortLog'[i].ret
        /\ \/ sortLog'[i].type = "carousel"
           \/ {"carousel", "scroller"} \cap Substrings(Cls[c]) # {}}

\* C30: a step schedules one scroll reset for every reorder it makes of a
\* container that is sorted as a carousel or has carousel or scroller in its
\* class names, and none for any other container or call; only a scheduled
\* reset is made, and in the end every scheduled reset has been made.
C30_ScrollReset ==
    /\ [][\A c \in Nodes :
            scrollPending'[c] + scrollResets'[c] =
                scrollPending[c] + scrollResets[c] + Cardinality(ScrollingReorders(c))]_vars
    /\ [][\A c \in Nodes : scrollResets'[c] >= scrollResets[c]]_vars
    /\ <>[](\A c \in Nodes : scrollPending[c] = 0)

\* the browse collection that has the class scroller was reordered and its
\* scroll reset has been made
C30_Witness ==
    /\ layout = 13
    /\ sortCount[10] = 1
    /\ scrollResets[10] = 1
    /\ scrollPending[10] = 0


(***************************************************************************)
(* C31: the deferred callbacks and what starts a pass.                     *)
(***************************************************************************)
\* the step runs the start-up call: initialize() on a document that is ready,
\* or the DOMContentLoaded listener
StartStep == phase # "running" /\ phase' = "running"

\* the step runs a retry timer (it may schedule the next one)
RetryStep ==
    retryPending' - retryPending = (retriesScheduled' - retriesScheduled) - 1

\* the step runs the debounce timer
DebounceStep == debouncePending' = debouncePending - 1

\* the step runs the timer the load listener has set
LoadTimerStep == loadPending' = loadPending - 1

\* the step runs a pass
RanPass == lastFound' # "none"

C32_RetriesBounded ==
    /\ retryCount <= MAX_RETRIES
    /\ retriesScheduled <= MAX_RETRIES
    /\ retryPending <= retriesScheduled
    /\ IF hasFoundCards THEN retryCount = 0 ELSE retryCount = retriesScheduled

\* all the retries were scheduled, then a pass found the cards and reset the
\* counter, the window load event has come, and the last pass found no card
C32_Witness ==
    /\ hasFoundCards /\ retryCount = 0
    /\ retriesScheduled = MAX_RETRIES
    /\ loadState = "fired"
    /\ lastFound = "zero"


(***************************************************************************)
(* C33: what the markers stand for.                                        *)
(***************************************************************************)
\* C33: a card in processedCards has had the suffix appended to its title
\* exactly once, a container in processedContainers has been reordered
\* exactly once, and no step takes a card or a container out of its set
C33_MarkersMeanDone ==
    /\ [](\A card \in processedCards : appendCount[card] = 1)
    /\ [](\A container \in processedContainers : sortCount[container] = 1)
    /\ [][/\ processedCards \subseteq processedCards'
          /\ processedContainers \subseteq processedContainers']_vars

\* a reordered container and an annotated card in it are still marked after
\* the page has removed the container from the document
C33_Witness ==
    \E container \in processedContainers :
        /\ sortCount[container] = 1
        /\ ~InDocument(kids, container)
        /\ \E card \in processedCards \cap Range(Desc(kids, container)) :
              appendCount[card] = 1


(***************************************************************************)
(* C34: every card with a rating gets its suffix.                          *)
(***************************************************************************)
\* the card has a title element and a rating above 0, and its title holds
\* no suffix
LacksSuffix(card) ==
    \E titleElement \in {QuerySelector(Cls, kids, card, SELECTORS.title)},
       rating \in {ExtractRatingData(Cls, kids, text, card).rating} :
        /\ titleElement # None
        /\ GtZero(rating)
        /\ CountIn(text[titleElement], "(") = 0

\* the script is at rest for good unless the page changes: the load event
\* has come, no timer is pending and the interval is cleared
AtRest == Quiet /\ loadState = "fired"

\* C34, the part a finite run refutes: when the script is at rest, so that
\* nothing more happens if the page stops changing here, every inner card of
\* the document that has a title element and a rating above 0, and on which
\* the annotator does not throw, has a suffix in its title
C34_AnnotatedAtRest ==
    AtRest =>
        \A card \in Range(InnerCardsNow) \ Layouts[layout].faulty :
            ~LacksSuffix(card)


(***************************************************************************)
(* C35: the type the sweep gives to a container of the unknown list.       *)
(***************************************************************************)
\* the calls of the last sweep on containers of its unknown list
UnknownCalls == {i \in DOMAIN sortLog : sortLog[i].container \in Range(detectLog.unknown)}

\* C35: every call of sortContainer on a container of the unknown list
\* passes the type generic: in the tree the call starts from, which holds
\* the reorders made earlier in the sweep, the container has neither a
\* carousel card nor a browse card below it, and it has an inner card
C35_UnknownIsGeneric ==
    \A i \in UnknownCalls :
        /\ sortLog[i].type = "generic"
        /\ QuerySelector(Cls, sortLog[i].pre, sortLog[i].container, SELECTORS.carouselCard) = None
        /\ QuerySelector(Cls, sortLog[i].pre, sortLog[i].container, SELECTORS.browseCard) = None
        /\ QuerySelector(Cls, sortLog[i].pre, sortLog[i].container, SELECTORS.innerCard) # None

\* a sweep reordered a container and then called sortContainer on a
\* container of its unknown list
C35_Witness ==
    \E j \in UnknownCalls : \E i \in 1..(j - 1) :
        /\ sortLog[i].ret
        /\ sortLog[i].post # sortLog[i].pre
        /\ sortLog[j].type = "generic"


(***************************************************************************)
(* C36: sortContainer against the three handlers of the earlier iteration. *)
(***************************************************************************)
\* the runs in which the retry timers, the interval and the scroll resets
\* do not get their turn: the passes are those of the start, of the debounce
\* timer and of the load timer, which comes at any time after the start
NextSort ==
    \/ Initialize
    \/ DOMContentLoaded
    \/ LoadEvent
    \/ LoadTimer
    \/ DebounceTimer
    \/ SortTimer
    \/ PageAdd
    \/ PageRemove
    \/ PageSetText

SpecSort == Init /\ [][NextSort]_vars

ContainerTypes == {"carousel", "browse", "generic"}

\* what a call leaves: whether it threw, its return value, the tree, the
\* texts and the two marker sets
Outcome(st) ==
    [threw |-> st.srt[Len(st.srt)].threw, ret |-> st.srt[Len(st.srt)].ret,
     k |-> st.k, t |-> st.t, pc |-> st.pc, pk |-> st.pk]

\* sortContainer called now on the container with the type
UnifiedNow(container, containerType) ==
    Outcome(SortContainer(Cls, hasFoundCards, hasPseudo, St0, container, containerType))

\* the handler of the type called now on the container
HandlerNow(container, containerType) ==
    Outcome(HandleContainer(Cls, hasFoundCards, hasPseudo, St0, container, containerType))

\* the cards a handler of the type selects below the container
SelectedNow(container, containerType) ==
    Range(QuerySelectorAll(Cls, kids, container,
              CardSelector(Cls, kids, container, containerType, hasPseudo)))

\* a card the carousel or the browse handler selects has no inner card
\* below it
BareCardBelow(container, containerType) ==
    /\ containerType # "generic"
    /\ \E card \in SelectedNow(container, containerType) :
          QuerySelector(Cls, kids, card, SELECTORS.innerCard) = None

\* an element on which the host throws is below the container
FaultBelow(container) ==
    Range(Desc(kids, container)) \cap Layouts[layout].faulty # {}

====
